---- MODULE Spec2Model ----
(* Session Store and API Gateway Client of DailyBook_frontend (src/lib/api.ts). *)
(* JavaScript strings that are only copied or concatenated are TLA+ strings;   *)
(* texts that are encoded or parsed (JSON payloads, response bodies, content   *)
(* types) are sequences of atoms, an atom being one character or an unbroken   *)
(* run of ordinary characters.                                                 *)
EXTENDS Integers, Sequences, FiniteSets, TLC

VARIABLES env, storage, pending, trace, fetches, now, ui

vars == <<env, storage, pending, trace, fetches, now, ui>>

(* fetches: for each call in flight, the number of requests handed to fetch; *)
(* now: the wall clock; ui: the state of the page components.                *)
pageVars == <<now, ui>>

(* Bounds *)

MaxPending == 2

HistLen == 2

(* Optional values: null / undefined is the empty sequence. *)

Absent == <<>>

Some(v) == <<v>>

(* JavaScript truthiness of an optional string: null, undefined and "" are falsy. *)
Truthy(o) == o # Absent /\ o[1] # ""

(* Completion of a call: it returns a value or throws one. *)
Return(v) == [kind |-> "return", value |-> v]

Throw(e) == [kind |-> "throw", value |-> e]

(* Thrown values: Error objects carry a message, other thrown values do not. *)
ErrorObj(msg) == [isError |-> TRUE, message |-> msg]

NonError == [isError |-> FALSE, message |-> ""]

SecurityError == ErrorObj("The operation is insecure.")

(* Execution contexts: "server" has no window object; "browser" has a working *)
(* localStorage; "blocked" is a browser whose localStorage access throws.     *)

Envs == {"browser", "server", "blocked"}

NoWindow(e) == e = "server"

EmptyStorage == [auth_token |-> Absent, auth_expires |-> Absent]

Tokens == {"", "tokA", "tokB"}

Expiries == {0, 1700}

API_BASE == "http://localhost:8080"

(* Session Store *)

(* Variant: reads the expiry entry instead of the token entry. *)
getStoredTokenWrongKey(e, st) ==
    IF NoWindow(e) THEN Return(Absent)
    ELSE IF e = "blocked" THEN Throw(SecurityError)
    ELSE Return(st.auth_expires)

(* Each operation yields its completion and the storage it leaves behind. *)
getStoredToken(e, st) ==
    IF NoWindow(e) THEN Return(Absent)
    ELSE IF e = "blocked" THEN Throw(SecurityError)
    ELSE Return(st.auth_token)

(* Variant: an expiry already stored is kept. *)
setStoredTokenKeepExpiry(e, st, token, expiresAt) ==
    IF NoWindow(e) THEN [completion |-> Return(Absent), storage |-> st]
    ELSE IF e = "blocked" THEN [completion |-> Throw(SecurityError), storage |-> st]
    ELSE [completion |-> Return(Absent),
          storage |-> [auth_token |-> Some(token),
                       auth_expires |-> IF st.auth_expires # Absent THEN st.auth_expires
                                        ELSE Some(ToString(expiresAt))]]

setStoredToken(e, st, token, expiresAt) ==
    IF NoWindow(e) THEN [completion |-> Return(Absent), storage |-> st]
    ELSE IF e = "blocked" THEN [completion |-> Throw(SecurityError), storage |-> st]
    ELSE [completion |-> Return(Absent),
          storage |-> [auth_token |-> Some(token),
                       auth_expires |-> Some(ToString(expiresAt))]]

(* Variant: only the token entry is removed. *)
clearStoredTokenOnlyToken(e, st) ==
    IF NoWindow(e) THEN [completion |-> Return(Absent), storage |-> st]
    ELSE IF e = "blocked" THEN [completion |-> Throw(SecurityError), storage |-> st]
    ELSE [completion |-> Return(Absent),
          storage |-> [auth_token |-> Absent, auth_expires |-> st.auth_expires]]

clearStoredToken(e, st) ==
    IF NoWindow(e) THEN [completion |-> Return(Absent), storage |-> st]
    ELSE IF e = "blocked" THEN [completion |-> Throw(SecurityError), storage |-> st]
    ELSE [completion |-> Return(Absent), storage |-> EmptyStorage]


(* JSON text over atoms.  A JavaScript string is a sequence of atoms; the      *)
(* quote and the backslash are atoms of their own, so that escaping is real.   *)

QUOTE == "\""

BACKSLASH == "\\"

StrVal(s) == [t |-> "str", s |-> s]

NumVal(n) == [t |-> "num", n |-> n]

ArrVal(a) == [t |-> "arr", a |-> a]

ObjVal(o) == [t |-> "obj", o |-> o]

(* A value that refers back to its own container: JSON.stringify throws on it. *)
CycVal == [t |-> "cyc"]

Member(k, v) == [k |-> k, v |-> v]

RECURSIVE Flatten(_)
Flatten(ss) == IF ss = <<>> THEN <<>> ELSE Head(ss) \o Flatten(Tail(ss))

RECURSIVE JoinComma(_)
JoinComma(ss) ==
    IF ss = <<>> THEN <<>>
    ELSE IF Len(ss) = 1 THEN ss[1]
    ELSE ss[1] \o <<",">> \o JoinComma(Tail(ss))

EscapeAtom(c) ==
    IF c = QUOTE THEN <<BACKSLASH, QUOTE>>
    ELSE IF c = BACKSLASH THEN <<BACKSLASH, BACKSLASH>>
    ELSE <<c>>

QuoteStr(s) == <<QUOTE>> \o Flatten([i \in 1..Len(s) |-> EscapeAtom(s[i])]) \o <<QUOTE>>

RECURSIVE HasCycle(_)
HasCycle(v) ==
    CASE v.t = "cyc" -> TRUE
      [] v.t = "str" -> FALSE
      [] v.t = "num" -> FALSE
      [] v.t = "arr" -> \E i \in 1..Len(v.a) : HasCycle(v.a[i])
      [] v.t = "obj" -> \E i \in 1..Len(v.o) : HasCycle(v.o[i].v)

RECURSIVE Serialize(_)
Serialize(v) ==
    CASE v.t = "str" -> QuoteStr(v.s)
      [] v.t = "num" -> <<ToString(v.n)>>
      [] v.t = "arr" ->
           <<"[">> \o JoinComma([i \in 1..Len(v.a) |-> Serialize(v.a[i])]) \o <<"]">>
      [] v.t = "obj" ->
           <<"{">> \o JoinComma([i \in 1..Len(v.o) |->
                        QuoteStr(v.o[i].k) \o <<":">> \o Serialize(v.o[i].v)]) \o <<"}">>

(* JSON.stringify(value): TypeError on a cyclic structure, else the JSON text. *)
JSONstringify(v) ==
    IF HasCycle(v) THEN Throw(ErrorObj("Converting circular structure to JSON"))
    ELSE Return(Serialize(v))

(* Concatenation of the atoms of a text into one string. *)
RECURSIVE Join(_)
Join(s) == IF s = <<>> THEN "" ELSE Head(s) \o Join(Tail(s))

(* The numbers that occur in the payloads, and the value of a numeral. *)
Numbers == {0, 1, 10, 1700}

IsNumeral(c) == \E n \in Numbers : ToString(n) = c

NumberOf(c) == CHOOSE n \in Numbers : ToString(n) = c

ParseFail == [ok |-> FALSE, value |-> StrVal(<<>>), next |-> 0]

ParseOk(v, n) == [ok |-> TRUE, value |-> v, next |-> n]

AtomAt(s, i) == IF i \in 1..Len(s) THEN s[i] ELSE ""

(* A repeated key keeps its first position and takes the last value. *)
PutMember(ms, k, v) ==
    IF \E j \in 1..Len(ms) : ms[j].k = k
    THEN [j \in 1..Len(ms) |-> IF ms[j].k = k THEN Member(k, v) ELSE ms[j]]
    ELSE Append(ms, Member(k, v))

RECURSIVE ParseChars(_, _, _)
ParseChars(s, i, acc) ==
    IF i > Len(s) THEN ParseFail
    ELSE IF s[i] = QUOTE THEN ParseOk(StrVal(acc), i + 1)
    ELSE IF s[i] = BACKSLASH
         THEN IF AtomAt(s, i + 1) \in {QUOTE, BACKSLASH}
              THEN ParseChars(s, i + 2, Append(acc, s[i + 1]))
              ELSE ParseFail
    ELSE ParseChars(s, i + 1, Append(acc, s[i]))

RECURSIVE ParseValue(_, _), ParseElems(_, _, _), ParseMembers(_, _, _)
ParseValue(s, i) ==
    CASE AtomAt(s, i) = QUOTE -> ParseChars(s, i + 1, <<>>)
      [] AtomAt(s, i) = "[" ->
           IF AtomAt(s, i + 1) = "]" THEN ParseOk(ArrVal(<<>>), i + 2)
           ELSE ParseElems(s, i + 1, <<>>)
      [] AtomAt(s, i) = "{" ->
           IF AtomAt(s, i + 1) = "}" THEN ParseOk(ObjVal(<<>>), i + 2)
           ELSE ParseMembers(s, i + 1, <<>>)
      [] IsNumeral(AtomAt(s, i)) -> ParseOk(NumVal(NumberOf(s[i])), i + 1)
      [] OTHER -> ParseFail

ParseElems(s, i, acc) ==
    LET r == ParseValue(s, i) IN
    IF ~r.ok THEN ParseFail
    ELSE IF AtomAt(s, r.next) = "," THEN ParseElems(s, r.next + 1, Append(acc, r.value))
    ELSE IF AtomAt(s, r.next) = "]" THEN ParseOk(ArrVal(Append(acc, r.value)), r.next + 1)
    ELSE ParseFail

ParseMembers(s, i, acc) ==
    LET k == IF AtomAt(s, i) = QUOTE THEN ParseChars(s, i + 1, <<>>) ELSE ParseFail
        v == IF k.ok /\ AtomAt(s, k.next) = ":" THEN ParseValue(s, k.next + 1) ELSE ParseFail
        ms == PutMember(acc, k.value.s, v.value)
    IN
    IF ~v.ok THEN ParseFail
    ELSE IF AtomAt(s, v.next) = "," THEN ParseMembers(s, v.next + 1, ms)
    ELSE IF AtomAt(s, v.next) = "}" THEN ParseOk(ObjVal(ms), v.next + 1)
    ELSE ParseFail

(* JSON.parse(text): the value, or SyntaxError when the text is not one JSON value. *)
JSONparse(s) ==
    LET r == ParseValue(s, 1) IN
    IF r.ok /\ r.next = Len(s) + 1 THEN Return(r.value)
    ELSE Throw(ErrorObj("Unexpected token in JSON"))

(* Values as the pages handle them: an optional property of a response, the *)
(* truth value of a value, and its conversion to a string.                  *)
Field(v, k) ==
    IF v.t = "obj" /\ \E j \in 1..Len(v.o) : v.o[j].k = k
    THEN Some((CHOOSE m \in {v.o[j] : j \in 1..Len(v.o)} : m.k = k).v)
    ELSE Absent

TruthyVal(v) ==
    CASE v.t = "str" -> v.s # <<>>
      [] v.t = "num" -> v.n # 0
      [] OTHER -> TRUE

IsArray(v) == v.t = "arr"

RECURSIVE ToJSString(_)
ToJSString(x) ==
    IF x = Absent THEN "undefined"
    ELSE CASE x[1].t = "str" -> Join(x[1].s)
           [] x[1].t = "num" -> ToString(x[1].n)
           [] x[1].t = "arr" ->
                Join(JoinComma([i \in 1..Len(x[1].a) |-> <<ToJSString(Some(x[1].a[i]))>>]))
           [] OTHER -> "[object Object]"

(* API Gateway Client *)

(* Variant: the Authorization header is added whether or not a token was found. *)
getHeadersAlwaysAuth(e, st, token) ==
    LET authToken == IF Truthy(token) THEN Return(token) ELSE getStoredToken(e, st)
        base == "Content-Type" :> "application/json"
    IN
    IF authToken.kind = "throw" THEN authToken
    ELSE Return(base @@ ("Authorization" :>
                  ("Bearer " \o (IF authToken.value = Absent THEN "" ELSE authToken.value[1]))))

(* Variant: the stored token is preferred to the explicit one. *)
getHeadersStoredFirst(e, st, token) ==
    LET stored == getStoredToken(e, st)
        authToken == IF stored.kind = "throw" THEN stored
                     ELSE IF Truthy(stored.value) THEN stored ELSE Return(token)
        base == "Content-Type" :> "application/json"
    IN
    IF authToken.kind = "throw" THEN authToken
    ELSE IF Truthy(authToken.value)
         THEN Return(base @@ ("Authorization" :> ("Bearer " \o authToken.value[1])))
         ELSE Return(base)

(* getHeaders(token): token || getStoredToken() reads the store only when the *)
(* explicit token is falsy; the Authorization header is added only for a      *)
(* truthy token.                                                               *)
getHeaders(e, st, token) ==
    LET authToken == IF Truthy(token) THEN Return(token) ELSE getStoredToken(e, st)
        base == "Content-Type" :> "application/json"
    IN
    IF authToken.kind = "throw" THEN authToken
    ELSE IF Truthy(authToken.value)
         THEN Return(base @@ ("Authorization" :> ("Bearer " \o authToken.value[1])))
         ELSE Return(base)

(* Variant: a body without fields is not sent. *)
apiCallRequestSkipEmpty(e, st, endpoint, method, body, token) ==
    LET headers == getHeaders(e, st, token)
        hasBody == body # Absent /\ body[1] # ObjVal(<<>>)
        payload == IF hasBody THEN JSONstringify(body[1]) ELSE Return(Absent)
    IN
    IF headers.kind = "throw" THEN headers
    ELSE IF payload.kind = "throw" THEN payload
    ELSE Return([url |-> API_BASE \o endpoint,
                 method |-> method,
                 headers |-> headers.value,
                 body |-> IF hasBody THEN Some(payload.value) ELSE Absent])

(* The try block up to the fetch call: the options handed to fetch, or the    *)
(* exception thrown while building them.                                       *)
apiCallRequest(e, st, endpoint, method, body, token) ==
    LET headers == getHeaders(e, st, token)
        payload == IF body # Absent THEN JSONstringify(body[1]) ELSE Return(Absent)
    IN
    IF headers.kind = "throw" THEN headers
    ELSE IF payload.kind = "throw" THEN payload
    ELSE Return([url |-> API_BASE \o endpoint,
                 method |-> method,
                 headers |-> headers.value,
                 body |-> IF body # Absent THEN Some(payload.value) ELSE Absent])

ResponseOk(status) == status \in 200..299

Includes(text, atom) == \E i \in 1..Len(text) : text[i] = atom

BodyReadError == ErrorObj("body stream already read")

(* Variant: a success body is returned as text whatever the content type. *)
apiCallResponseAlwaysText(outcome) ==
    IF outcome.kind = "reject" THEN Throw(outcome.err)
    ELSE LET response == outcome.response
             text == Join(response.body)
         IN
         IF ~ResponseOk(response.status)
         THEN IF response.bodyFails THEN Throw(BodyReadError)
              ELSE Return([error |-> IF text # "" THEN text
                                     ELSE "API error: " \o ToString(response.status)])
         ELSE IF response.bodyFails THEN Throw(BodyReadError)
              ELSE Return([data |-> StrVal(response.body)])

(* Variant: the body text of a failed response is used even when it is empty. *)
apiCallResponseNoFallback(outcome) ==
    IF outcome.kind = "reject" THEN Throw(outcome.err)
    ELSE LET response == outcome.response
             text == Join(response.body)
         IN
         IF ~ResponseOk(response.status)
         THEN IF response.bodyFails THEN Throw(BodyReadError)
              ELSE Return([error |-> text])
         ELSE IF response.contentType # Absent
                 /\ Includes(response.contentType[1], "application/json")
              THEN IF response.bodyFails THEN Throw(BodyReadError)
                   ELSE LET data == JSONparse(response.body) IN
                        IF data.kind = "throw" THEN data
                        ELSE Return([data |-> data.value])
              ELSE IF response.bodyFails THEN Throw(BodyReadError)
                   ELSE Return([data |-> StrVal(response.body)])

(* The try block after fetch has settled. *)
apiCallResponse(outcome) ==
    IF outcome.kind = "reject" THEN Throw(outcome.err)
    ELSE LET response == outcome.response
             text == Join(response.body)
         IN
         IF ~ResponseOk(response.status)
         THEN IF response.bodyFails THEN Throw(BodyReadError)
              ELSE Return([error |-> IF text # "" THEN text
                                     ELSE "API error: " \o ToString(response.status)])
         ELSE IF response.contentType # Absent
                 /\ Includes(response.contentType[1], "application/json")
              THEN IF response.bodyFails THEN Throw(BodyReadError)
                   ELSE LET data == JSONparse(response.body) IN
                        IF data.kind = "throw" THEN data
                        ELSE Return([data |-> data.value])
              ELSE IF response.bodyFails THEN Throw(BodyReadError)
                   ELSE Return([data |-> StrVal(response.body)])

(* Variant: only Error objects are caught, any other thrown value escapes. *)
apiCallCatchErrorsOnly(c) ==
    IF c.kind = "throw" /\ c.value.isError
    THEN Return([error |-> c.value.message])
    ELSE c

(* Variant: the error result also carries a data field. *)
apiCallCatchWithData(c) ==
    IF c.kind = "throw"
    THEN Return([data |-> Absent,
                 error |-> IF c.value.isError THEN c.value.message ELSE "Unknown error"])
    ELSE c

(* Variant: every caught value is reported with the generic message. *)
apiCallCatchGeneric(c) ==
    IF c.kind = "throw" THEN Return([error |-> "Unknown error"]) ELSE c

(* The catch clause: whatever the try block threw becomes an error result. *)
apiCallCatch(c) ==
    IF c.kind = "throw"
    THEN Return([error |-> IF c.value.isError THEN c.value.message ELSE "Unknown error"])
    ELSE c

(* Inputs *)

Methods == {"GET", "POST", "PUT", "DELETE"}

Endpoints == {"/api/entries"}

TokenArgs == {Absent, Some(""), Some("tokA")}

Bodies ==
    { Absent,
      Some(ObjVal(<<>>)),
      Some(ObjVal(<<Member(<<"username">>, StrVal(<<"u">>)),
                    Member(<<"password">>, StrVal(<<"p", QUOTE, BACKSLASH>>))>>)),
      Some(ObjVal(<<Member(<<"title">>, StrVal(<<>>)),
                    Member(<<"tags">>, ArrVal(<<StrVal(<<"a">>), StrVal(<<"b">>)>>))>>)),
      Some(ObjVal(<<Member(<<"self">>, CycVal)>>)) }

Thrown == {ErrorObj("network down"), ErrorObj(""), NonError}

Statuses == {200, 404, 500}

ContentTypes ==
    { Absent,
      Some(<<"application/json">>),
      Some(<<"application/json", "; charset=utf-8">>),
      Some(<<"text/plain">>) }

ResponseBodies ==
    { <<>>,
      <<"Not found">>,
      Serialize(ObjVal(<<Member(<<"id">>, StrVal(<<"1">>)),
                         Member(<<"title">>, StrVal(<<"x">>))>>)) }

Responses ==
    { r \in [status : Statuses, contentType : ContentTypes,
             body : ResponseBodies, bodyFails : BOOLEAN] :
        r.bodyFails => r.body = <<>> }

Outcomes ==
    {[kind |-> "reject", err |-> x] : x \in Thrown}
    \cup {[kind |-> "response", response |-> r] : r \in Responses}

Sessions ==
    {[auth_token |-> Some(t), auth_expires |-> Some(ToString(x))] :
        t \in Tokens, x \in Expiries}

(* Observation of the last step; of a run of consecutive store operations the *)
(* last HistLen are kept.                                                     *)

IsStoreEvent(ev) == ev.op \in {"get", "set", "clear"}

Push(ev) ==
    IF trace # <<>> /\ IsStoreEvent(trace[Len(trace)]) /\ IsStoreEvent(ev)
    THEN LET t == Append(trace, ev) IN
         IF Len(t) > HistLen THEN SubSeq(t, Len(t) - HistLen + 1, Len(t)) ELSE t
    ELSE <<ev>>

NoUi == [page |-> "none"]

Init ==
    /\ env \in Envs
    /\ storage \in (IF env = "browser" THEN {EmptyStorage} \cup Sessions ELSE {EmptyStorage})
    /\ pending = {}
    /\ trace = <<>>
    /\ fetches = <<>>
    /\ now = 0
    /\ ui = NoUi

GetToken ==
    /\ trace' = Push([op |-> "get", completion |-> getStoredToken(env, storage),
                      before |-> storage, after |-> storage])
    /\ UNCHANGED <<env, storage, pending, fetches, pageVars>>

SetToken(token, expiresAt) ==
    LET r == setStoredToken(env, storage, token, expiresAt) IN
    /\ storage' = r.storage
    /\ trace' = Push([op |-> "set", token |-> token, expiresAt |-> expiresAt,
                      completion |-> r.completion,
                      before |-> storage, after |-> r.storage])
    /\ UNCHANGED <<env, pending, fetches, pageVars>>

ClearToken ==
    LET r == clearStoredToken(env, storage) IN
    /\ storage' = r.storage
    /\ trace' = Push([op |-> "clear", completion |-> r.completion,
                      before |-> storage, after |-> r.storage])
    /\ UNCHANGED <<env, pending, fetches, pageVars>>

FreeId == CHOOSE i \in 1..(MaxPending + 1) : i \notin pending

(* apiCall up to its first await: the request is built and handed to fetch. *)
ApiCallSend(endpoint, method, body, token) ==
    LET c == apiCallRequest(env, storage, endpoint, method, body, token) IN
    /\ Cardinality(pending) < MaxPending
    /\ c.kind = "return"
    /\ pending' = pending \cup {FreeId}
    /\ trace' = Push([op |-> "send", id |-> FreeId, endpoint |-> endpoint,
                      method |-> method, body |-> body, token |-> token,
                      stored |-> storage.auth_token, request |-> c.value])
    /\ fetches' = (FreeId :> 1) @@ fetches
    /\ UNCHANGED <<env, storage, pageVars>>

(* apiCall whose request could not be built: nothing is sent, the catch clause runs. *)
ApiCallAbort(endpoint, method, body, token) ==
    LET c == apiCallRequest(env, storage, endpoint, method, body, token) IN
    /\ c.kind = "throw"
    /\ trace' = Push([op |-> "done", sent |-> FALSE, outcome |-> [kind |-> "none"],
                      fetches |-> 0, completion |-> apiCallCatch(c)])
    /\ UNCHANGED <<env, storage, pending, fetches, pageVars>>

Drop(f, id) == [j \in DOMAIN f \ {id} |-> f[j]]

(* Variant: a call whose request failed is issued a second time. *)
ApiCallSettleRetry(id, outcome) ==
    LET c == apiCallCatch(apiCallResponse(outcome)) IN
    /\ id \in pending
    /\ IF "error" \in DOMAIN c.value /\ fetches[id] < 2
       THEN /\ fetches' = [fetches EXCEPT ![id] = @ + 1]
            /\ UNCHANGED <<pending, trace>>
       ELSE /\ pending' = pending \ {id}
            /\ fetches' = Drop(fetches, id)
            /\ trace' = Push([op |-> "done", sent |-> TRUE, outcome |-> outcome,
                              fetches |-> fetches[id], completion |-> c])
    /\ UNCHANGED <<env, storage, pageVars>>

(* fetch settles and apiCall runs to its return. *)
ApiCallSettle(id, outcome) ==
    /\ id \in pending
    /\ pending' = pending \ {id}
    /\ fetches' = Drop(fetches, id)
    /\ trace' = Push([op |-> "done", sent |-> TRUE, outcome |-> outcome,
                      fetches |-> fetches[id],
                      completion |-> apiCallCatch(apiCallResponse(outcome))])
    /\ UNCHANGED <<env, storage, pageVars>>

Next ==
    \/ GetToken
    \/ \E t \in Tokens, x \in Expiries : SetToken(t, x)
    \/ ClearToken
    \/ \E ep \in Endpoints, m \in Methods, b \in Bodies, tok \in TokenArgs :
          ApiCallSend(ep, m, b, tok)
    \/ \E ep \in Endpoints, m \in Methods, b \in Bodies, tok \in TokenArgs :
          ApiCallAbort(ep, m, b, tok)
    \/ \E id \in pending, o \in Outcomes : ApiCallSettle(id, o)

Spec == Init /\ [][Next]_vars

(* Properties *)

DoneEvents == {i \in 1..Len(trace) : trace[i].op = "done"}

SendEvents == {i \in 1..Len(trace) : trace[i].op = "send"}

(* Consecutive pairs of store operations. *)
StorePairs == {i \in 1..(Len(trace) - 1) : IsStoreEvent(trace[i]) /\ IsStoreEvent(trace[i + 1])}

HasAuth(req) == "Authorization" \in DOMAIN req.headers

(* The call failed: nothing was sent, fetch rejected, the status was not 2xx, *)
(* the body could not be read, or a body declared as JSON did not parse.     *)
Failed(ev) ==
    \/ ~ev.sent
    \/ ev.outcome.kind = "reject"
    \/ /\ ev.outcome.kind = "response"
       /\ LET r == ev.outcome.response IN
          \/ ~ResponseOk(r.status)
          \/ r.bodyFails
          \/ /\ r.contentType # Absent
             /\ Includes(r.contentType[1], "application/json")
             /\ JSONparse(r.body).kind = "throw"

(* C1: every invocation of apiCall completes by returning an ApiResult (an   *)
(* object with a data or an error field), whatever the storage and the       *)
(* network do; no exception escapes to the caller.                           *)
C1_ApiCallAlwaysReturns ==
    \A i \in DoneEvents :
        /\ trace[i].completion.kind = "return"
        /\ DOMAIN trace[i].completion.value \subseteq {"data", "error"}

C1_Witness ==
    \E i \in DoneEvents :
        /\ trace[i].sent
        /\ trace[i].outcome.kind = "reject"
        /\ ~trace[i].outcome.err.isError
        /\ trace[i].completion.kind = "return"

(* C2: every result returned by apiCall has exactly one of the fields data   *)
(* and error, and it has the error field exactly when the call failed, so    *)
(* that branching on the presence of error classifies the outcome.           *)
C2_ExactlyOneField ==
    \A i \in DoneEvents :
        trace[i].completion.kind = "return" =>
            LET r == trace[i].completion.value IN
            /\ DOMAIN r \in {{"data"}, {"error"}}
            /\ ("error" \in DOMAIN r) <=> Failed(trace[i])

C2_Witness ==
    \E i \in DoneEvents :
        /\ trace[i].sent
        /\ trace[i].outcome.kind = "response"
        /\ ResponseOk(trace[i].outcome.response.status)
        /\ trace[i].outcome.response.body = <<"Not found">>
        /\ trace[i].outcome.response.contentType = Some(<<"application/json">>)
        /\ DOMAIN trace[i].completion.value = {"error"}

(* C3 as stated: without an explicit token, a request built while the store  *)
(* holds a token carries Authorization: Bearer <storedToken>, and a request  *)
(* built while it holds none has no Authorization header.                    *)
C3_Original ==
    \A i \in SendEvents :
        trace[i].token = Absent =>
            LET req == trace[i].request
                stored == trace[i].stored
            IN
            /\ stored # Absent =>
                  HasAuth(req) /\ req.headers["Authorization"] = "Bearer " \o stored[1]
            /\ stored = Absent => ~HasAuth(req)

(* C3 amended: without an explicit token, a request built while the store    *)
(* holds a non-empty token carries Authorization: Bearer <storedToken>; when *)
(* the store holds no token or the empty string, the request has no          *)
(* Authorization header at all.                                              *)
C3_StoredTokenAttached ==
    \A i \in SendEvents :
        trace[i].token = Absent =>
            LET req == trace[i].request
                stored == trace[i].stored
            IN
            /\ Truthy(stored) =>
                  HasAuth(req) /\ req.headers["Authorization"] = "Bearer " \o stored[1]
            /\ ~Truthy(stored) => ~HasAuth(req)

C3_Witness ==
    \E i \in SendEvents :
        /\ trace[i].token = Absent
        /\ trace[i].stored = Some("tokA")
        /\ HasAuth(trace[i].request)
        /\ trace[i].request.headers["Authorization"] = "Bearer tokA"

(* C4 as stated: with an explicit token parameter, whatever its value, the   *)
(* Authorization header carries that token and not the stored one.           *)
C4_Original ==
    \A i \in SendEvents :
        trace[i].token # Absent =>
            /\ HasAuth(trace[i].request)
            /\ trace[i].request.headers["Authorization"] = "Bearer " \o trace[i].token[1]

(* C4 amended: with a non-empty explicit token parameter, the Authorization  *)
(* header carries that token and not the stored one, whatever the store      *)
(* holds.                                                                    *)
C4_ExplicitTokenWins ==
    \A i \in SendEvents :
        Truthy(trace[i].token) =>
            /\ HasAuth(trace[i].request)
            /\ trace[i].request.headers["Authorization"] = "Bearer " \o trace[i].token[1]

C4_Witness ==
    \E i \in SendEvents :
        /\ trace[i].token = Some("tokA")
        /\ trace[i].stored = Some("tokB")
        /\ trace[i].request.headers["Authorization"] = "Bearer tokA"

(* C5: a request built from a descriptor with a body (the empty map          *)
(* included), for any method, has Content-Type: application/json and a       *)
(* payload that parses as JSON to exactly the fields of the body.            *)
C5_BodyIsJson ==
    \A i \in SendEvents :
        trace[i].body # Absent =>
            LET req == trace[i].request IN
            /\ req.method = trace[i].method
            /\ "Content-Type" \in DOMAIN req.headers
            /\ req.headers["Content-Type"] = "application/json"
            /\ req.body # Absent
            /\ JSONparse(req.body[1]) = Return(trace[i].body[1])

C5_Witness ==
    \E i \in SendEvents :
        /\ trace[i].method = "GET"
        /\ trace[i].body = Some(ObjVal(<<>>))
        /\ trace[i].request.body = Some(<<"{", "}">>)
        /\ trace[i].request.headers["Content-Type"] = "application/json"

(* C6: where storage is accessible, getToken right after setToken(t, e)      *)
(* returns t, and getToken right after clearToken returns absent, whatever   *)
(* was stored before the clearToken.                                         *)
C6_RoundTrip ==
    env = "browser" =>
        \A i \in StorePairs :
            /\ (trace[i].op = "set" /\ trace[i + 1].op = "get") =>
                  trace[i + 1].completion = Return(Some(trace[i].token))
            /\ (trace[i].op = "clear" /\ trace[i + 1].op = "get") =>
                  trace[i + 1].completion = Return(Absent)

C6_Witness ==
    /\ env = "browser"
    /\ \E i \in StorePairs :
          /\ trace[i].op = "set"
          /\ trace[i].token = "tokA"
          /\ trace[i + 1].op = "get"
          /\ trace[i + 1].completion = Return(Some("tokA"))

(* C7: where storage is accessible, after setToken(t1, e1) followed by       *)
(* setToken(t2, e2) the store holds exactly the token t2 and the expiry e2.  *)
C7_Overwrite ==
    env = "browser" =>
        \A i \in StorePairs :
            (trace[i].op = "set" /\ trace[i + 1].op = "set") =>
                trace[i + 1].after =
                    [auth_token |-> Some(trace[i + 1].token),
                     auth_expires |-> Some(ToString(trace[i + 1].expiresAt))]

C7_Witness ==
    /\ env = "browser"
    /\ \E i \in StorePairs :
          /\ trace[i].op = "set" /\ trace[i + 1].op = "set"
          /\ trace[i].token = "tokA" /\ trace[i].expiresAt = 0
          /\ trace[i + 1].token = "tokB" /\ trace[i + 1].expiresAt = 1700
          /\ storage = [auth_token |-> Some("tokB"), auth_expires |-> Some("1700")]

(* C8: where storage is accessible, clearToken returns without error and     *)
(* leaves neither the token nor the expiry entry, also when nothing was      *)
(* stored; a second clearToken in a row leaves the state of the first.       *)
C8_ClearIdempotent ==
    env = "browser" =>
        /\ \A i \in 1..Len(trace) :
              trace[i].op = "clear" =>
                  /\ trace[i].completion = Return(Absent)
                  /\ trace[i].after = EmptyStorage
        /\ \A i \in StorePairs :
              (trace[i].op = "clear" /\ trace[i + 1].op = "clear") =>
                  trace[i + 1].after = trace[i].after

C8_Witness ==
    /\ env = "browser"
    /\ \E i \in StorePairs :
          /\ trace[i].op = "clear" /\ trace[i + 1].op = "clear"
          /\ trace[i].before # EmptyStorage
          /\ trace[i + 1].before = EmptyStorage
          /\ trace[i + 1].completion = Return(Absent)
          /\ storage = EmptyStorage

(* C9: in a context without storage access every Session Store operation     *)
(* completes without throwing and without effect, and getToken returns       *)
(* absent.                                                                   *)
C9_NoStorageDegrades ==
    env # "browser" =>
        \A i \in 1..Len(trace) :
            IsStoreEvent(trace[i]) =>
                /\ trace[i].completion.kind = "return"
                /\ trace[i].completion.value = Absent
                /\ trace[i].after = trace[i].before

(* C10: a response with a non-success status yields a result with an error   *)
(* field and no data field; when the body was read, the error is the body    *)
(* text if that is non-empty and "API error: <status>" if it is empty, also  *)
(* for a body that is JSON.                                                  *)
C10_NonOkIsError ==
    \A i \in DoneEvents :
        (/\ trace[i].sent
         /\ trace[i].outcome.kind = "response"
         /\ ~ResponseOk(trace[i].outcome.response.status)) =>
            LET r == trace[i].outcome.response
                c == trace[i].completion
            IN
            /\ c.kind = "return"
            /\ DOMAIN c.value = {"error"}
            /\ ~r.bodyFails =>
                  /\ c.value.error = IF r.body # <<>> THEN Join(r.body)
                                     ELSE "API error: " \o ToString(r.status)
                  /\ r.body = <<"Not found">> => c.value.error = "Not found"
                  /\ (r.body = <<>> /\ r.status = 500) => c.value.error = "API error: 500"

C10_Witness ==
    \E i \in DoneEvents :
        /\ trace[i].sent
        /\ trace[i].outcome.kind = "response"
        /\ trace[i].outcome.response.status = 500
        /\ trace[i].outcome.response.body = <<>>
        /\ ~trace[i].outcome.response.bodyFails
        /\ trace[i].completion = Return([error |-> "API error: 500"])

DeclaredJson(r) == r.contentType # Absent /\ Includes(r.contentType[1], "application/json")

(* C11: for a success response whose body is read, the result is the parsed  *)
(* JSON body, as data and without error, when the Content-Type contains      *)
(* application/json and the body is JSON; for any other or missing content   *)
(* type it is the raw response text, as data and without error.              *)
C11_SuccessData ==
    \A i \in DoneEvents :
        (/\ trace[i].sent
         /\ trace[i].outcome.kind = "response"
         /\ ResponseOk(trace[i].outcome.response.status)
         /\ ~trace[i].outcome.response.bodyFails) =>
            LET r == trace[i].outcome.response
                c == trace[i].completion
            IN
            /\ (DeclaredJson(r) /\ JSONparse(r.body).kind = "return") =>
                  c = Return([data |-> JSONparse(r.body).value])
            /\ ~DeclaredJson(r) =>
                  /\ c = Return([data |-> StrVal(r.body)])
                  /\ Join(c.value.data.s) = Join(r.body)

C11_Witness ==
    \E i \in DoneEvents :
        /\ trace[i].sent
        /\ trace[i].outcome.kind = "response"
        /\ trace[i].outcome.response.status = 200
        /\ trace[i].outcome.response.contentType = Some(<<"application/json", "; charset=utf-8">>)
        /\ trace[i].completion =
              Return([data |-> ObjVal(<<Member(<<"id">>, StrVal(<<"1">>)),
                                        Member(<<"title">>, StrVal(<<"x">>))>>)])

(* The value thrown inside the try block of a failed call, if any. *)
ThrownIn(ev) ==
    IF ev.outcome.kind = "reject" THEN Some(ev.outcome.err)
    ELSE IF ev.outcome.kind = "response"
    THEN LET r == ev.outcome.response IN
         IF r.bodyFails THEN Some(BodyReadError)
         ELSE IF ResponseOk(r.status) /\ DeclaredJson(r) /\ JSONparse(r.body).kind = "throw"
              THEN Some(JSONparse(r.body).value)
              ELSE Absent
    ELSE Absent

(* C12: when fetch rejects, a body cannot be read or a success body declared *)
(* as JSON does not parse, the result is an error result whose message is    *)
(* the message of the thrown Error, or "Unknown error" when the thrown value *)
(* is not an Error and so carries no message.                                *)
C12_ThrownBecomesError ==
    \A i \in DoneEvents :
        (trace[i].sent /\ ThrownIn(trace[i]) # Absent) =>
            LET x == ThrownIn(trace[i])[1] IN
            /\ x.isError => trace[i].completion = Return([error |-> x.message])
            /\ ~x.isError => trace[i].completion = Return([error |-> "Unknown error"])

C12_Witness ==
    \E i \in DoneEvents :
        /\ trace[i].sent
        /\ trace[i].outcome = [kind |-> "reject", err |-> ErrorObj("network down")]
        /\ trace[i].completion = Return([error |-> "network down"])

(* C16: one invocation of apiCall hands exactly one request to fetch: a call *)
(* in flight has issued one request, a call that returned after its request *)
(* settled, with whatever outcome, has issued one request, and a call whose  *)
(* request could not be built has issued none.                               *)
C16_FireOnce ==
    /\ DOMAIN fetches = pending
    /\ \A id \in pending : fetches[id] = 1
    /\ \A i \in DoneEvents :
          /\ trace[i].fetches = IF trace[i].sent THEN 1 ELSE 0
          /\ trace[i].sent =>
                trace[i].completion = apiCallCatch(apiCallResponse(trace[i].outcome))

C16_Witness ==
    \E i \in DoneEvents :
        /\ trace[i].sent
        /\ trace[i].outcome.kind = "reject"
        /\ trace[i].fetches = 1
        /\ "error" \in DOMAIN trace[i].completion.value

(* Domain operations *)

Call(endpoint, method, body) ==
    [endpoint |-> endpoint, method |-> method, body |-> body, token |-> Absent]

EmptyObject == ObjVal(<<>>)

login(username, password) ==
    Call("/api/auth/login", "POST",
         Some(ObjVal(<<Member(<<"username">>, StrVal(username)),
                       Member(<<"password">>, StrVal(password))>>)))

getMyEntries == Call("/api/entries", "GET", Absent)

getFeed(page, size) ==
    Call("/api/entries/feed?page=" \o ToString(page) \o "&size=" \o ToString(size),
         "GET", Absent)

(* Variant: the follow request is sent without a body. *)
sendFollowRequestNoBody(username) == Call("/api/follow/" \o username, "POST", Absent)

sendFollowRequest(username) == Call("/api/follow/" \o username, "POST", Some(EmptyObject))

unfollow(username) == Call("/api/follow/" \o username, "DELETE", Absent)

getFollowers == Call("/api/follow/me/followers", "GET", Absent)

getFollowing == Call("/api/follow/me/following", "GET", Absent)

getPendingFollowRequests == Call("/api/follow/me/requests", "GET", Absent)

approveFollowRequest(username) ==
    Call("/api/follow/approve/" \o username, "POST", Some(EmptyObject))

rejectFollowRequest(username) == Call("/api/follow/reject/" \o username, "DELETE", Absent)

listNotifications(page, size) ==
    Call("/api/notifications?page=" \o ToString(page) \o "&size=" \o ToString(size),
         "GET", Absent)

getUnreadNotificationsCount == Call("/api/notifications/unread-count", "GET", Absent)

getMyProfile == Call("/api/profile/me", "GET", Absent)

Usernames == {"bob", "me"}

FollowOps == {"sendFollowRequest", "unfollow", "approveFollowRequest", "rejectFollowRequest"}

FollowCall(op, username) ==
    CASE op = "sendFollowRequest" -> sendFollowRequest(username)
      [] op = "unfollow" -> unfollow(username)
      [] op = "approveFollowRequest" -> approveFollowRequest(username)
      [] op = "rejectFollowRequest" -> rejectFollowRequest(username)

(* A page invokes one of the follow-graph operations; the operation calls *)
(* apiCall, which runs up to the point where it awaits fetch.             *)
FollowSend(op, username) ==
    LET call == FollowCall(op, username)
        c == apiCallRequest(env, storage, call.endpoint, call.method, call.body, call.token)
    IN
    /\ Cardinality(pending) < MaxPending
    /\ c.kind = "return"
    /\ pending' = pending \cup {FreeId}
    /\ fetches' = (FreeId :> 1) @@ fetches
    /\ trace' = Push([op |-> "send", id |-> FreeId, domain |-> op, username |-> username,
                      stored |-> storage.auth_token, request |-> c.value])
    /\ UNCHANGED <<env, storage, pageVars>>

(* The request cannot be built: apiCall returns an error result at once. *)
FollowAbort(op, username) ==
    LET call == FollowCall(op, username)
        c == apiCallRequest(env, storage, call.endpoint, call.method, call.body, call.token)
    IN
    /\ c.kind = "throw"
    /\ trace' = Push([op |-> "done", sent |-> FALSE, outcome |-> [kind |-> "none"],
                      fetches |-> 0, completion |-> apiCallCatch(c)])
    /\ UNCHANGED <<env, storage, pending, fetches, pageVars>>

NextDomain ==
    \/ \E op \in FollowOps, username \in Usernames : FollowSend(op, username)
    \/ \E op \in FollowOps, username \in Usernames : FollowAbort(op, username)
    \/ \E id \in pending, outcome \in Outcomes : ApiCallSettle(id, outcome)

SpecDomain == Init /\ [][NextDomain]_vars

FollowSent(op) == {i \in SendEvents : trace[i].domain = op}

Wire(i, method, path) ==
    /\ trace[i].request.method = method
    /\ trace[i].request.url = API_BASE \o path \o trace[i].username

EmptyObjectBody == Some(<<"{", "}">>)

(* C19 as stated: each of Follow, Unfollow, Approve and Reject is sent with *)
(* the stated method and path and with the JSON text {} as its body.        *)
C19_Original ==
    /\ \A i \in FollowSent("sendFollowRequest") :
          Wire(i, "POST", "/api/follow/") /\ trace[i].request.body = EmptyObjectBody
    /\ \A i \in FollowSent("unfollow") :
          Wire(i, "DELETE", "/api/follow/") /\ trace[i].request.body = EmptyObjectBody
    /\ \A i \in FollowSent("approveFollowRequest") :
          Wire(i, "POST", "/api/follow/approve/") /\ trace[i].request.body = EmptyObjectBody
    /\ \A i \in FollowSent("rejectFollowRequest") :
          Wire(i, "DELETE", "/api/follow/reject/") /\ trace[i].request.body = EmptyObjectBody

(* C19, amended: the four operations are sent with the stated method and    *)
(* path; Follow and Approve (POST) carry the JSON text {} as body, Unfollow *)
(* and Reject (DELETE) are sent without a body.                             *)
C19_FollowWire ==
    /\ \A i \in FollowSent("sendFollowRequest") :
          Wire(i, "POST", "/api/follow/") /\ trace[i].request.body = EmptyObjectBody
    /\ \A i \in FollowSent("unfollow") :
          Wire(i, "DELETE", "/api/follow/") /\ trace[i].request.body = Absent
    /\ \A i \in FollowSent("approveFollowRequest") :
          Wire(i, "POST", "/api/follow/approve/") /\ trace[i].request.body = EmptyObjectBody
    /\ \A i \in FollowSent("rejectFollowRequest") :
          Wire(i, "DELETE", "/api/follow/reject/") /\ trace[i].request.body = Absent

C19_Witness ==
    \E i \in FollowSent("rejectFollowRequest") :
        /\ trace[i].username = "bob"
        /\ trace[i].request.url = "http://localhost:8080/api/follow/reject/bob"
        /\ trace[i].request.body = Absent

(* Session lifecycle: login page, logout, and requests of several tabs *)

UndefinedToString == ErrorObj("Cannot read properties of undefined (reading 'toString')")

(* setStoredToken as the login page calls it, with whatever the response    *)
(* holds under token and expiresAt: a missing token is stored as the text   *)
(* undefined, a missing expiresAt throws after the token has been written.  *)
setStoredTokenOf(e, st, token, expiresAt) ==
    IF NoWindow(e) THEN [completion |-> Return(Absent), storage |-> st]
    ELSE IF e = "blocked" THEN [completion |-> Throw(SecurityError), storage |-> st]
    ELSE IF expiresAt = Absent
         THEN [completion |-> Throw(UndefinedToString),
               storage |-> [st EXCEPT !.auth_token = Some(ToJSString(token))]]
    ELSE IF token # Absent /\ token[1].t = "str" /\ expiresAt[1].t = "num"
         THEN setStoredToken(e, st, Join(token[1].s), expiresAt[1].n)
    ELSE [completion |-> Return(Absent),
          storage |-> [auth_token |-> Some(ToJSString(token)),
                       auth_expires |-> Some(ToJSString(expiresAt))]]

FreshTab == [route |-> "/", error |-> "", loading |-> FALSE, call |-> ""]

(* handleSubmit after the awaited login returned result. *)
handleSubmitResult(e, st, tab, result) ==
    LET apiError == IF "error" \in DOMAIN result THEN Some(result.error) ELSE Absent
        hasData == "data" \in DOMAIN result /\ TruthyVal(result.data)
        set == setStoredTokenOf(e, st, Field(result.data, <<"token">>),
                                Field(result.data, <<"expiresAt">>))
    IN
    IF Truthy(apiError) \/ ~hasData
    THEN [storage |-> st,
          tab |-> [tab EXCEPT !.error = IF Truthy(apiError) THEN apiError[1]
                                        ELSE "Login failed",
                              !.loading = FALSE, !.call = ""]]
    ELSE IF set.completion.kind = "throw"
    THEN [storage |-> set.storage,
          tab |-> [tab EXCEPT !.error = IF set.completion.value.isError
                                        THEN set.completion.value.message
                                        ELSE "An error occurred",
                              !.loading = FALSE, !.call = ""]]
    ELSE [storage |-> set.storage,
          tab |-> [tab EXCEPT !.route = "/feed", !.loading = FALSE, !.call = ""]]

(* Home.handleLogout: both entries are removed directly from localStorage. *)
handleLogout(e, st) ==
    IF e = "browser" THEN [completion |-> Return(Absent), storage |-> EmptyStorage]
    ELSE IF e = "blocked" THEN [completion |-> Throw(SecurityError), storage |-> st]
    ELSE [completion |-> Throw(ErrorObj("localStorage is not defined")), storage |-> st]

(* The page size the pages pass to the paged operations. *)
PageSize == 10

Tabs == {1, 2}

Times == {0, 2000}

JsonType == Some(<<"application/json">>)

LoginBody(token, expiresAt) ==
    Serialize(ObjVal(<<Member(<<"token">>, StrVal(<<token>>)),
                       Member(<<"expiresAt">>, NumVal(expiresAt))>>))

LoginResponses ==
    { [status |-> 200, contentType |-> JsonType, body |-> LoginBody("tokA", 1700),
       bodyFails |-> FALSE],
      [status |-> 200, contentType |-> JsonType, body |-> LoginBody("tokB", 0),
       bodyFails |-> FALSE],
      [status |-> 200, contentType |-> JsonType,
       body |-> Serialize(ObjVal(<<Member(<<"token">>, StrVal(<<"tokA">>))>>)),
       bodyFails |-> FALSE],
      [status |-> 200, contentType |-> Absent, body |-> <<>>, bodyFails |-> FALSE],
      [status |-> 401, contentType |-> Some(<<"text/plain">>),
       body |-> <<"Bad credentials">>, bodyFails |-> FALSE] }

LoginOutcomes ==
    {[kind |-> "reject", err |-> ErrorObj("network down")]}
    \cup {[kind |-> "response", response |-> r] : r \in LoginResponses}

FeedResponses ==
    { [status |-> 200, contentType |-> JsonType,
       body |-> Serialize(ObjVal(<<Member(<<"content">>, ArrVal(<<>>))>>)),
       bodyFails |-> FALSE],
      [status |-> 401, contentType |-> Some(<<"text/plain">>),
       body |-> <<"Unauthorized">>, bodyFails |-> FALSE],
      [status |-> 401, contentType |-> Absent, body |-> <<>>, bodyFails |-> FALSE] }

FeedOutcomes ==
    {[kind |-> "reject", err |-> ErrorObj("network down")]}
    \cup {[kind |-> "response", response |-> r] : r \in FeedResponses}

(* The stored expiry lies before time t. *)
Expired(st, t) ==
    /\ st.auth_expires # Absent
    /\ IsNumeral(st.auth_expires[1])
    /\ NumberOf(st.auth_expires[1]) < t

InitSession ==
    /\ env = "browser"
    /\ storage \in {EmptyStorage} \cup Sessions
    /\ pending = {}
    /\ trace = <<>>
    /\ fetches = <<>>
    /\ now = 0
    /\ ui = [page |-> "session", tabs |-> [t \in Tabs |-> FreshTab]]

(* What the previous step was, by which tab, and whether it found a token stored. *)
Prev ==
    IF trace = <<>> THEN [op |-> "none", tab |-> 0, held |-> FALSE]
    ELSE [op |-> trace[1].op, tab |-> trace[1].tab, held |-> Truthy(trace[1].stored)]

Tick ==
    /\ \E t \in Times : t > now /\ now' = t
    /\ UNCHANGED <<env, storage, pending, trace, fetches, ui>>

TabGetToken(tab) ==
    /\ trace' = <<[op |-> "get", tab |-> tab, stored |-> storage.auth_token, now |-> now,
                   prev |-> Prev, read |-> getStoredToken(env, storage)]>>
    /\ UNCHANGED <<env, storage, pending, fetches, pageVars>>

(* A call of this tab is handed to fetch; the tab awaits it. *)
TabSend(tab, name, call, st) ==
    LET c == apiCallRequest(env, st, call.endpoint, call.method, call.body, call.token) IN
    /\ ui.tabs[tab].call = ""
    /\ c.kind = "return"
    /\ pending' = pending \cup {tab}
    /\ fetches' = (tab :> 1) @@ fetches
    /\ trace' = <<[op |-> "send", tab |-> tab, stored |-> storage.auth_token, now |-> now,
                   prev |-> Prev, call |-> name, request |-> c.value]>>
    /\ UNCHANGED <<env, storage, now>>

(* Variant: a session whose expiry has passed is treated as absent. *)
FeedSendUnlessExpired(tab) ==
    /\ TabSend(tab, "getFeed", getFeed(0, PageSize),
               IF Expired(storage, now) THEN EmptyStorage ELSE storage)
    /\ ui' = [ui EXCEPT !.tabs[tab].call = "getFeed"]

(* Variant: the header is built from the token seen by the previous step. *)
FeedSendCached(tab) ==
    /\ TabSend(tab, "getFeed", getFeed(0, PageSize),
               IF trace = <<>> THEN storage
               ELSE [storage EXCEPT !.auth_token = trace[1].stored])
    /\ ui' = [ui EXCEPT !.tabs[tab].call = "getFeed"]

(* A page of the tab requests the feed, without a token override. *)
FeedSend(tab) ==
    /\ TabSend(tab, "getFeed", getFeed(0, PageSize), storage)
    /\ ui' = [ui EXCEPT !.tabs[tab].call = "getFeed"]

TabDone(tab, outcome, completion) ==
    /\ pending' = pending \ {tab}
    /\ fetches' = Drop(fetches, tab)
    /\ trace' = <<[op |-> "done", tab |-> tab, stored |-> storage.auth_token, now |-> now,
                   outcome |-> outcome, completion |-> completion]>>

(* Variant: an answer 401 removes the session. *)
FeedSettleForcedLogout(tab, outcome) ==
    /\ ui.tabs[tab].call = "getFeed"
    /\ TabDone(tab, outcome, apiCallCatch(apiCallResponse(outcome)))
    /\ ui' = [ui EXCEPT !.tabs[tab].call = ""]
    /\ storage' = IF outcome.kind = "response" /\ outcome.response.status = 401
                  THEN clearStoredToken(env, storage).storage ELSE storage
    /\ UNCHANGED <<env, now>>

(* The feed request settles and getFeed returns its result to the page. *)
FeedSettle(tab, outcome) ==
    /\ ui.tabs[tab].call = "getFeed"
    /\ TabDone(tab, outcome, apiCallCatch(apiCallResponse(outcome)))
    /\ ui' = [ui EXCEPT !.tabs[tab].call = ""]
    /\ UNCHANGED <<env, storage, now>>

(* handleSubmit up to the awaited login. *)
LoginSubmit(tab) ==
    /\ ~ui.tabs[tab].loading
    /\ TabSend(tab, "login", login(<<"u">>, <<"p">>), storage)
    /\ ui' = [ui EXCEPT !.tabs[tab].error = "", !.tabs[tab].loading = TRUE,
                        !.tabs[tab].call = "login"]

(* The login request settles and handleSubmit runs to its end. *)
LoginSettle(tab, outcome) ==
    LET completion == apiCallCatch(apiCallResponse(outcome))
        r == handleSubmitResult(env, storage, ui.tabs[tab], completion.value)
    IN
    /\ ui.tabs[tab].call = "login"
    /\ pending' = pending \ {tab}
    /\ fetches' = Drop(fetches, tab)
    /\ storage' = r.storage
    /\ ui' = [ui EXCEPT !.tabs[tab] = r.tab]
    /\ trace' = <<[op |-> "login", tab |-> tab, stored |-> storage.auth_token, now |-> now,
                   outcome |-> outcome, result |-> completion.value]>>
    /\ UNCHANGED <<env, now>>

Logout(tab) ==
    LET r == handleLogout(env, storage) IN
    /\ storage' = r.storage
    /\ ui' = IF r.completion.kind = "return"
             THEN [ui EXCEPT !.tabs[tab].route = "/login"] ELSE ui
    /\ trace' = <<[op |-> "logout", tab |-> tab, stored |-> storage.auth_token,
                   now |-> now]>>
    /\ UNCHANGED <<env, pending, fetches, now>>

NextSession ==
    \/ Tick
    \/ \E tab \in Tabs : TabGetToken(tab)
    \/ \E tab \in Tabs : FeedSend(tab)
    \/ \E tab \in Tabs, outcome \in FeedOutcomes : FeedSettle(tab, outcome)
    \/ \E tab \in Tabs : LoginSubmit(tab)
    \/ \E tab \in Tabs, outcome \in LoginOutcomes : LoginSettle(tab, outcome)
    \/ \E tab \in Tabs : Logout(tab)

SpecSession == InitSession /\ [][NextSession]_vars

Last == trace[1]

Bearer(req) == req.headers["Authorization"]

(* C13 as stated: whatever the stored expiry and the current time, getToken *)
(* returns the stored token and a request built without an override carries *)
(* the stored token, for every session the store holds.                      *)
C13_Original ==
    trace # <<>> =>
        /\ Last.op = "get" => Last.read = Return(Last.stored)
        /\ (Last.op = "send" /\ Last.stored # Absent) =>
              HasAuth(Last.request) /\ Bearer(Last.request) = "Bearer " \o Last.stored[1]

(* C13, amended: whatever the stored expiry and the current time, getToken  *)
(* returns the stored token, and a request built without an override        *)
(* carries the stored token whenever that token is not the empty string.    *)
C13_NoExpiryCheck ==
    trace # <<>> =>
        /\ Last.op = "get" => Last.read = Return(Last.stored)
        /\ (Last.op = "send" /\ Truthy(Last.stored)) =>
              HasAuth(Last.request) /\ Bearer(Last.request) = "Bearer " \o Last.stored[1]

C13_Witness ==
    /\ trace # <<>>
    /\ Last.op = "send"
    /\ Last.call = "getFeed"
    /\ Truthy(Last.stored)
    /\ Expired(storage, Last.now)
    /\ Bearer(Last.request) = "Bearer " \o storage.auth_token[1]

(* The page accepted the login: no error and a response value that is not empty. *)
LoginAccepted(ev) == "data" \in DOMAIN ev.result /\ TruthyVal(ev.result.data)

HoldsSession(st, data) ==
    /\ Field(data, <<"token">>) # Absent
    /\ Field(data, <<"expiresAt">>) # Absent
    /\ st = [auth_token |-> Some(ToJSString(Field(data, <<"token">>))),
             auth_expires |-> Some(ToJSString(Field(data, <<"expiresAt">>)))]

(* C14: the store changes only by a successful login or a logout; after a   *)
(* successful login it holds the token and expiresAt of that response, a    *)
(* failed login leaves it unchanged, and after logout both entries are      *)
(* absent.                                                                   *)
C14_Lifecycle ==
    [][/\ storage' # storage =>
             /\ trace' # trace
             /\ trace'[1].op \in {"login", "logout"}
             /\ trace'[1].op = "login" => LoginAccepted(trace'[1])
       /\ (trace' # trace /\ trace'[1].op = "login") =>
             IF LoginAccepted(trace'[1])
             THEN HoldsSession(storage', trace'[1].result.data)
             ELSE storage' = storage
       /\ (trace' # trace /\ trace'[1].op = "logout") => storage' = EmptyStorage
      ]_vars

(* C15: a step of apiCall or of a domain operation leaves the Session Store *)
(* unchanged whatever its outcome (an answer 401 included); the store       *)
(* changes only in the login and logout handlers.                           *)
C15_StoreFrame ==
    [][/\ (trace' # trace /\ trace'[1].op \in {"send", "done", "get"}) => storage' = storage
       /\ storage' # storage => (trace' # trace /\ trace'[1].op \in {"login", "logout"})
      ]_vars

C15_Witness ==
    /\ trace # <<>>
    /\ Last.op = "done"
    /\ Last.outcome.kind = "response"
    /\ Last.outcome.response.status = 401
    /\ "error" \in DOMAIN Last.completion.value
    /\ Truthy(storage.auth_token)
    /\ Expired(storage, now)

(* C18: a read of the token and the headers of a request reflect what the   *)
(* storage holds at that moment, whichever tab wrote it last: getToken      *)
(* returns the stored value, a request carries the token now stored, and a  *)
(* request built when no token is stored carries none.                      *)
C18_ReadsStorage ==
    trace # <<>> =>
        /\ Last.op = "get" => Last.read = Return(storage.auth_token)
        /\ Last.op = "send" =>
              IF Truthy(storage.auth_token)
              THEN HasAuth(Last.request)
                   /\ Bearer(Last.request) = "Bearer " \o storage.auth_token[1]
              ELSE ~HasAuth(Last.request)

C18_Witness ==
    /\ trace # <<>>
    /\ Last.op = "send"
    /\ Last.prev.op = "logout"
    /\ Last.prev.held
    /\ Last.prev.tab # Last.tab
    /\ ~HasAuth(Last.request)

(* Pages that load data when they are mounted *)

GuardedPages == {"feed", "profile", "followers", "notifications", "my-posts", "write"}

(* The calls a page issues together when it loads, in the order of the code. *)
LoadCalls(page) ==
    CASE page = "feed" -> <<getFeed(0, PageSize)>>
      [] page = "profile" -> <<getMyProfile, getFollowers, getFollowing, getMyEntries>>
      [] page = "followers" -> <<getFollowers, getFollowing, getPendingFollowRequests>>
      [] page = "notifications" ->
           <<listNotifications(0, PageSize), getUnreadNotificationsCount>>
      [] page = "my-posts" -> <<getMyEntries>>
      [] page = "write" -> <<>>

EmptyList == Some(ArrVal(<<>>))

EmptyText == Some(StrVal(<<>>))

Zero == Some(NumVal(0))

(* useState: the data a page holds before its load. *)
InitialState(page) ==
    CASE page = "feed" -> [entries |-> EmptyList, totalPages |-> Zero]
      [] page = "profile" ->
           [profile |-> Absent, editBio |-> EmptyText, photoPreview |-> EmptyText,
            followers |-> EmptyList, following |-> EmptyList, myPosts |-> EmptyList]
      [] page = "followers" ->
           [followers |-> EmptyList, following |-> EmptyList, pending |-> EmptyList]
      [] page = "notifications" ->
           [notifications |-> EmptyList, totalPages |-> Zero, unreadCount |-> Zero]
      [] page = "my-posts" -> [entries |-> EmptyList]
      [] page = "write" -> [title |-> EmptyText, content |-> EmptyText]

InitialLoading(page) == page # "write"

(* res.data is present and true as a condition. *)
HasData(res) == "data" \in DOMAIN res /\ TruthyVal(res.data)

(* value || "" *)
OrEmpty(x) == IF x # Absent /\ TruthyVal(x[1]) THEN x ELSE EmptyText

(* "content" in data: TypeError when data is not an object. *)
InThrows(res) == HasData(res) /\ res.data.t \in {"str", "num"}

HasContent(res) == HasData(res) /\ Field(res.data, <<"content">>) # Absent

(* The statements after the joint await, applied to the results in order;   *)
(* threw tells whether one of them raised an exception, which ends them.    *)
ApplyFeed(st, r) ==
    IF InThrows(r[1]) THEN [state |-> st, threw |-> TRUE]
    ELSE [state |-> IF HasContent(r[1])
                    THEN [st EXCEPT !.entries = Field(r[1].data, <<"content">>),
                                    !.totalPages = Field(r[1].data, <<"totalPages">>)]
                    ELSE st,
          threw |-> FALSE]

(* Variant: the results are used only when no call failed. *)
ApplyProfileAllOrNothing(st, r) ==
    IF \E i \in 1..Len(r) : "error" \in DOMAIN r[i] THEN [state |-> st, threw |-> FALSE]
    ELSE [state |->
             [st EXCEPT !.profile = IF HasData(r[1]) THEN Some(r[1].data) ELSE @,
                        !.editBio = IF HasData(r[1])
                                    THEN OrEmpty(Field(r[1].data, <<"bio">>)) ELSE @,
                        !.photoPreview =
                            IF HasData(r[1])
                            THEN OrEmpty(Field(r[1].data, <<"profilePicture">>)) ELSE @,
                        !.followers = IF HasData(r[2]) THEN Some(r[2].data) ELSE @,
                        !.following = IF HasData(r[3]) THEN Some(r[3].data) ELSE @,
                        !.myPosts = IF HasData(r[4]) /\ IsArray(r[4].data)
                                    THEN Some(r[4].data) ELSE @],
          threw |-> FALSE]

ApplyProfile(st, r) ==
    LET s1 == IF HasData(r[1])
              THEN [st EXCEPT !.profile = Some(r[1].data),
                              !.editBio = OrEmpty(Field(r[1].data, <<"bio">>)),
                              !.photoPreview =
                                  OrEmpty(Field(r[1].data, <<"profilePicture">>))]
              ELSE st
        s2 == IF HasData(r[2]) THEN [s1 EXCEPT !.followers = Some(r[2].data)] ELSE s1
        s3 == IF HasData(r[3]) THEN [s2 EXCEPT !.following = Some(r[3].data)] ELSE s2
        s4 == IF HasData(r[4]) /\ IsArray(r[4].data)
              THEN [s3 EXCEPT !.myPosts = Some(r[4].data)] ELSE s3
    IN [state |-> s4, threw |-> FALSE]

ApplyFollowers(st, r) ==
    LET s1 == IF HasData(r[1]) THEN [st EXCEPT !.followers = Some(r[1].data)] ELSE st
        s2 == IF HasData(r[2]) THEN [s1 EXCEPT !.following = Some(r[2].data)] ELSE s1
        s3 == IF HasData(r[3]) THEN [s2 EXCEPT !.pending = Some(r[3].data)] ELSE s2
    IN [state |-> s3, threw |-> FALSE]

ApplyNotifications(st, r) ==
    IF InThrows(r[1]) THEN [state |-> st, threw |-> TRUE]
    ELSE LET s1 == IF HasContent(r[1])
                   THEN [st EXCEPT !.notifications = Field(r[1].data, <<"content">>),
                                   !.totalPages = Field(r[1].data, <<"totalPages">>)]
                   ELSE st
             s2 == IF HasData(r[2]) THEN [s1 EXCEPT !.unreadCount = Some(r[2].data)]
                   ELSE s1
         IN [state |-> s2, threw |-> FALSE]

ApplyMyPosts(st, r) ==
    [state |-> IF HasData(r[1]) /\ IsArray(r[1].data)
               THEN [st EXCEPT !.entries = Some(r[1].data)] ELSE st,
     threw |-> FALSE]

Apply(page, st, r) ==
    CASE page = "feed" -> ApplyFeed(st, r)
      [] page = "profile" -> ApplyProfile(st, r)
      [] page = "followers" -> ApplyFollowers(st, r)
      [] page = "notifications" -> ApplyNotifications(st, r)
      [] page = "my-posts" -> ApplyMyPosts(st, r)

PageResponse(status, contentType, body) ==
    [status |-> status, contentType |-> contentType, body |-> body, bodyFails |-> FALSE]

PageResponses ==
    { PageResponse(200, JsonType, Serialize(ArrVal(<<StrVal(<<"bob">>)>>))),
      PageResponse(200, JsonType,
                   Serialize(ObjVal(<<Member(<<"username">>, StrVal(<<"me">>)),
                                      Member(<<"bio">>, StrVal(<<"hi">>))>>))),
      PageResponse(200, JsonType,
                   Serialize(ObjVal(<<Member(<<"content">>, ArrVal(<<StrVal(<<"n1">>)>>)),
                                      Member(<<"totalPages">>, NumVal(1))>>))),
      PageResponse(200, JsonType, Serialize(NumVal(1))),
      PageResponse(200, Some(<<"text/plain">>), <<"ok">>),
      PageResponse(200, Absent, <<>>),
      PageResponse(500, Some(<<"text/plain">>), <<"Internal error">>) }

PageOutcomes ==
    {[kind |-> "reject", err |-> ErrorObj("network down")]}
    \cup {[kind |-> "response", response |-> r] : r \in PageResponses}

PageStorages ==
    { EmptyStorage,
      [auth_token |-> Some(""), auth_expires |-> Some("0")],
      [auth_token |-> Some("tokA"), auth_expires |-> Some("1700")] }

InitPages ==
    /\ env = "browser"
    /\ storage \in PageStorages
    /\ pending = {}
    /\ trace = <<>>
    /\ fetches = <<>>
    /\ now = 0
    /\ ui = NoUi

Mounted(page) ==
    [page |-> page, route |-> Absent, loading |-> InitialLoading(page), joined |-> FALSE,
     token |-> Absent, requests |-> <<>>, results |-> <<>>, first |-> 0, last |-> 0,
     state |-> InitialState(page)]

LoadRequests(page) ==
    [i \in 1..Len(LoadCalls(page)) |->
        apiCallRequest(env, storage, LoadCalls(page)[i].endpoint, LoadCalls(page)[i].method,
                       LoadCalls(page)[i].body, LoadCalls(page)[i].token)]

(* Variant: the effect goes on to load after it has redirected. *)
PageLoadNoReturn(page) ==
    LET t == getStoredToken(env, storage)
        reqs == LoadRequests(page)
    IN
    /\ ui = NoUi
    /\ t.kind = "return"
    /\ \A i \in 1..Len(reqs) : reqs[i].kind = "return"
    /\ ui' = [Mounted(page) EXCEPT
                  !.token = t.value,
                  !.route = IF Truthy(t.value) THEN Absent ELSE Some("/login"),
                  !.requests = [i \in 1..Len(reqs) |-> reqs[i].value]]
    /\ pending' = 1..Len(reqs)
    /\ fetches' = [i \in 1..Len(reqs) |-> 1]
    /\ UNCHANGED <<env, storage, trace, now>>

(* The effect a guarded page runs when it is mounted: without a token it    *)
(* redirects to /login and returns, else it starts the page's load, which   *)
(* issues its calls together and awaits them jointly.                       *)
PageLoad(page) ==
    LET t == getStoredToken(env, storage)
        reqs == LoadRequests(page)
    IN
    /\ ui = NoUi
    /\ t.kind = "return"
    /\ \A i \in 1..Len(reqs) : reqs[i].kind = "return"
    /\ IF ~Truthy(t.value)
       THEN /\ ui' = [Mounted(page) EXCEPT !.token = t.value, !.route = Some("/login")]
            /\ UNCHANGED <<pending, fetches>>
       ELSE /\ ui' = [Mounted(page) EXCEPT
                          !.token = t.value,
                          !.requests = [i \in 1..Len(reqs) |-> reqs[i].value]]
            /\ pending' = 1..Len(reqs)
            /\ fetches' = [i \in 1..Len(reqs) |-> 1]
    /\ UNCHANGED <<env, storage, trace, now>>

(* Variant: the load clears its loading flag as its last statement, not in  *)
(* a finally clause.                                                        *)
PageSettleNoFinally(i, outcome) ==
    LET completion == apiCallCatch(apiCallResponse(outcome))
        results == (i :> completion) @@ ui.results
        n == Len(ui.requests)
        a == Apply(ui.page, ui.state, [j \in 1..n |-> results[j].value])
        seen == [ui EXCEPT !.results = results,
                           !.first = IF ui.first = 0 THEN i ELSE @,
                           !.last = i]
    IN
    /\ i \in pending
    /\ pending' = pending \ {i}
    /\ fetches' = Drop(fetches, i)
    /\ ui' = IF ui.joined THEN seen
             ELSE IF completion.kind = "throw"
                  THEN [seen EXCEPT !.joined = TRUE]
             ELSE IF pending = {i}
                  THEN [seen EXCEPT !.joined = TRUE, !.loading = a.threw /\ @,
                                    !.state = a.state]
             ELSE seen
    /\ UNCHANGED <<env, storage, trace, now>>

(* One of the page's requests settles and its apiCall returns; when it is   *)
(* the last one the joint await resumes and the load runs to its end. The   *)
(* joint await rejects as soon as one of the calls throws.                  *)
PageSettle(i, outcome) ==
    LET completion == apiCallCatch(apiCallResponse(outcome))
        results == (i :> completion) @@ ui.results
        n == Len(ui.requests)
        a == Apply(ui.page, ui.state, [j \in 1..n |-> results[j].value])
        seen == [ui EXCEPT !.results = results,
                           !.first = IF ui.first = 0 THEN i ELSE @,
                           !.last = i]
    IN
    /\ i \in pending
    /\ pending' = pending \ {i}
    /\ fetches' = Drop(fetches, i)
    /\ ui' = IF ui.joined THEN seen
             ELSE IF completion.kind = "throw"
                  THEN [seen EXCEPT !.joined = TRUE, !.loading = FALSE]
             ELSE IF pending = {i}
                  THEN [seen EXCEPT !.joined = TRUE, !.loading = FALSE, !.state = a.state]
             ELSE seen
    /\ UNCHANGED <<env, storage, trace, now>>

NextPages ==
    \/ \E page \in GuardedPages : PageLoad(page)
    \/ \E i \in pending, outcome \in PageOutcomes : PageSettle(i, outcome)

SpecPages == InitPages /\ [][NextPages]_vars

Settled(i) == i \in DOMAIN ui.results

Result(i) == ui.results[i].value

ProfilePieces == <<"profile", "followers", "following", "myPosts">>

(* The data of call i of the profile load is usable for its piece of state. *)
Usable(i) == HasData(Result(i)) /\ (i = 4 => IsArray(Result(i).data))

(* C17: in the profile load the joint await completes once the four calls   *)
(* have returned, whichever of them failed and in whatever order they       *)
(* completed; each piece of page state then holds the data of its own call  *)
(* when that call succeeded with usable data, and its initial value         *)
(* otherwise, regardless of the results of the other calls.                 *)
C17_JoinAppliesEach ==
    ui.page = "profile" =>
        /\ ui.joined <=> (ui.requests # <<>> /\ \A i \in 1..4 : Settled(i))
        /\ ui.joined =>
              /\ ~ui.loading
              /\ \A i \in 1..4 :
                    ui.state[ProfilePieces[i]] =
                        IF Usable(i) THEN Some(Result(i).data)
                        ELSE InitialState("profile")[ProfilePieces[i]]

C17_Witness ==
    /\ ui.page = "profile"
    /\ ui.joined
    /\ ui.first = 2
    /\ "error" \in DOMAIN Result(2)
    /\ \A i \in {1, 3, 4} : Usable(i) /\ ui.state[ProfilePieces[i]] = Some(Result(i).data)
    /\ ui.state.followers = EmptyList
    /\ ui.last = 4

(* C20: a page that requires a session and is loaded while no token is      *)
(* stored has redirected to /login and has issued no API request.           *)
C20_GuardBeforeLoad ==
    (ui.page \in GuardedPages /\ ~Truthy(ui.token)) =>
        /\ ui.route = Some("/login")
        /\ ui.requests = <<>>
        /\ pending = {}
        /\ fetches = <<>>

C20_Witness ==
    /\ ui.page = "followers"
    /\ storage.auth_token = Absent
    /\ ui.route = Some("/login")
    /\ ui.requests = <<>>
    /\ pending = {}

(* C22: in every state reached by logins (with any response) and logouts   *)
(* the two storage entries are both present or both absent.                 *)
C22_BothOrNeither ==
    (storage.auth_token = Absent) <=> (storage.auth_expires = Absent)

(* Profile operations *)

(* encodeURIComponent, atom by atom: reserved characters are percent-encoded. *)
EncodeAtom(c) ==
    CASE c = " " -> "%20"
      [] c = "?" -> "%3F"
      [] c = "/" -> "%2F"
      [] c = "&" -> "%26"
      [] c = "=" -> "%3D"
      [] OTHER -> c

encodeURIComponent(s) == Join([i \in 1..Len(s) |-> EncodeAtom(s[i])])

getUserProfile(username) == Call("/api/profile/" \o username, "GET", Absent)

searchUsers(query) ==
    Call("/api/profile/search?query=" \o encodeURIComponent(query), "GET", Absent)

ProfileUsernames == {"bob", "me", "search"}

Queries == {<<"bob">>, <<"a", " ", "b">>, <<"me", "?", "x">>}

ProfileOps ==
    {[domain |-> "getMyProfile", arg |-> "", call |-> getMyProfile]}
    \cup {[domain |-> "getUserProfile", arg |-> u, call |-> getUserProfile(u)] :
             u \in ProfileUsernames}
    \cup {[domain |-> "searchUsers", arg |-> Join(q), call |-> searchUsers(q)] :
             q \in Queries}

(* A page invokes a profile operation; apiCall runs up to its await of fetch. *)
ProfileSend(o) ==
    LET c == apiCallRequest(env, storage, o.call.endpoint, o.call.method, o.call.body,
                            o.call.token)
    IN
    /\ Cardinality(pending) < MaxPending
    /\ c.kind = "return"
    /\ pending' = pending \cup {FreeId}
    /\ fetches' = (FreeId :> 1) @@ fetches
    /\ trace' = Push([op |-> "send", id |-> FreeId, domain |-> o.domain, username |-> o.arg,
                      stored |-> storage.auth_token, request |-> c.value])
    /\ UNCHANGED <<env, storage, pageVars>>

(* The request cannot be built: apiCall returns an error result at once. *)
ProfileAbort(o) ==
    LET c == apiCallRequest(env, storage, o.call.endpoint, o.call.method, o.call.body,
                            o.call.token)
    IN
    /\ c.kind = "throw"
    /\ trace' = Push([op |-> "done", sent |-> FALSE, outcome |-> [kind |-> "none"],
                      fetches |-> 0, completion |-> apiCallCatch(c)])
    /\ UNCHANGED <<env, storage, pending, fetches, pageVars>>

NextProfileOps ==
    \/ \E o \in ProfileOps : ProfileSend(o)
    \/ \E o \in ProfileOps : ProfileAbort(o)
    \/ \E id \in pending, outcome \in Outcomes : ApiCallSettle(id, outcome)

SpecProfileOps == Init /\ [][NextProfileOps]_vars

(* C29: a request of Get user profile, for any username, goes to a path     *)
(* other than that of Get my profile and that of Search users.              *)
C29_DistinctPaths ==
    \A i \in SendEvents :
        trace[i].domain = "getUserProfile" =>
            /\ trace[i].request.url # API_BASE \o "/api/profile/me"
            /\ trace[i].request.url # API_BASE \o "/api/profile/search"

(* Followers page: approve, reject, unfollow *)

Without(list, x) == SelectSeq(list, LAMBDA u : u # x)

Contains(list, x) == \E j \in 1..Len(list) : list[j] = x

HandlerResponses ==
    { PageResponse(200, Absent, <<>>),
      PageResponse(200, JsonType, Serialize(ObjVal(<<>>))),
      PageResponse(500, Some(<<"text/plain">>), <<"Internal error">>),
      PageResponse(401, Absent, <<>>) }

HandlerOutcomes ==
    {[kind |-> "reject", err |-> x] : x \in {ErrorObj("network down"), NonError}}
    \cup {[kind |-> "response", response |-> r] : r \in HandlerResponses}

FollowersLists ==
    { [followers |-> f, following |-> <<"bob">>, pending |-> p] :
        f \in {<<>>, <<"amy">>}, p \in {<<"cat">>, <<"cat", "dan">>} }

NoHandler == [handler |-> "none", username |-> "", result |-> [none |-> TRUE]]

InitFollowers ==
    /\ env = "browser"
    /\ storage = [auth_token |-> Some("tokA"), auth_expires |-> Some("1700")]
    /\ pending = {}
    /\ trace = <<>>
    /\ fetches = <<>>
    /\ now = 0
    /\ \E l \in FollowersLists :
          ui = [page |-> "followers", lists |-> l, shown |-> Absent, calls |-> <<>>,
                last |-> NoHandler]

(* A handler of the followers page up to its await: the operation's request *)
(* is handed to fetch; the handler keeps the lists of the render it was     *)
(* called in.                                                               *)
FollowersInvoke(handler, username, call) ==
    LET c == apiCallRequest(env, storage, call.endpoint, call.method, call.body, call.token)
    IN
    /\ ui.page = "followers"
    /\ Cardinality(pending) < MaxPending
    /\ c.kind = "return"
    /\ pending' = pending \cup {FreeId}
    /\ fetches' = (FreeId :> 1) @@ fetches
    /\ ui' = [ui EXCEPT !.calls = (FreeId :> [handler |-> handler, username |-> username,
                                              lists |-> ui.lists]) @@ @]
    /\ UNCHANGED <<env, storage, trace, now>>

handleApproveStart(username) ==
    /\ Contains(ui.lists.pending, username)
    /\ FollowersInvoke("handleApprove", username, approveFollowRequest(username))

handleRejectStart(username) ==
    /\ Contains(ui.lists.pending, username)
    /\ FollowersInvoke("handleReject", username, rejectFollowRequest(username))

handleUnfollowStart(username) ==
    /\ Contains(ui.lists.following, username)
    /\ FollowersInvoke("handleUnfollow", username, unfollow(username))

(* The statements of a handler after its await, on the lists it captured;   *)
(* they run when the awaited operation returned, whatever it returned.      *)
FollowersAfter(c) ==
    CASE c.handler = "handleApprove" ->
           [pending |-> Without(c.lists.pending, c.username),
            followers |-> Append(c.lists.followers, c.username)]
      [] c.handler = "handleReject" ->
           [pending |-> Without(c.lists.pending, c.username)]
      [] c.handler = "handleUnfollow" ->
           [following |-> Without(c.lists.following, c.username)]

(* The request of a handler settles and the handler runs to its end: the    *)
(* result of the operation is not inspected; the catch clause only logs.    *)
FollowersSettle(id, outcome) ==
    LET completion == apiCallCatch(apiCallResponse(outcome))
        c == ui.calls[id]
    IN
    /\ ui.page = "followers"
    /\ id \in pending
    /\ pending' = pending \ {id}
    /\ fetches' = Drop(fetches, id)
    /\ ui' = [ui EXCEPT
                 !.calls = Drop(@, id),
                 !.lists = IF completion.kind = "return" THEN FollowersAfter(c) @@ @ ELSE @,
                 !.last = [handler |-> c.handler, username |-> c.username,
                           result |-> IF completion.kind = "return" THEN completion.value
                                      ELSE [thrown |-> TRUE]]]
    /\ UNCHANGED <<env, storage, trace, now>>

FollowersUsers == {"bob", "cat", "dan"}

NextFollowers ==
    \/ \E u \in FollowersUsers : handleApproveStart(u)
    \/ \E u \in FollowersUsers : handleRejectStart(u)
    \/ \E u \in FollowersUsers : handleUnfollowStart(u)
    \/ \E id \in pending, outcome \in HandlerOutcomes : FollowersSettle(id, outcome)

SpecFollowers == InitFollowers /\ [][NextFollowers]_vars

(* A handler has just run to its end. *)
HandlerEnded == ui.calls # ui'.calls /\ DOMAIN ui'.calls \subseteq DOMAIN ui.calls

(* C21: when the operation a page handler invoked returned an error result, *)
(* the page ends in a state that shows an error, and the error is not       *)
(* treated as a success (the page's data is not updated).                   *)
C21_ErrorIsShown ==
    [][(HandlerEnded /\ "error" \in DOMAIN ui'.last.result) =>
            (ui'.shown # Absent /\ ui'.lists = ui.lists)]_vars

(* C23: handleApprove and handleReject leave the pending and followers      *)
(* lists unchanged when the operation returned an error result; a           *)
(* successful approve removes the user from pending and adds it to          *)
(* followers.                                                               *)
C23_ListsOnlyOnSuccess ==
    [][(HandlerEnded /\ ui'.last.handler \in {"handleApprove", "handleReject"}) =>
            IF "error" \in DOMAIN ui'.last.result
            THEN ui'.lists.pending = ui.lists.pending
                 /\ ui'.lists.followers = ui.lists.followers
            ELSE /\ ~Contains(ui'.lists.pending, ui'.last.username)
                 /\ ui'.last.handler = "handleApprove" =>
                        Contains(ui'.lists.followers, ui'.last.username)]_vars

(* Notifications page: mark as read *)

MaxMarks == 3

NotificationIds == {"n1", "n2", "n3"}

markNotificationAsRead(id) ==
    Call("/api/notifications/" \o id \o "/read", "POST", Some(EmptyObject))

Max(a, b) == IF a >= b THEN a ELSE b

(* read flag of each notification of the page, and the unread counter. *)
InitNotifications ==
    /\ env = "browser"
    /\ storage = [auth_token |-> Some("tokA"), auth_expires |-> Some("1700")]
    /\ pending = {}
    /\ trace = <<>>
    /\ fetches = <<>>
    /\ now = 0
    /\ \E r3 \in BOOLEAN, count \in 1..3 :
          ui = [page |-> "notifications",
                notifications |-> [n \in NotificationIds |-> n = "n3" /\ r3],
                unreadCount |-> count,
                calls |-> <<>>, marks |-> 0, batch |-> <<>>, count0 |-> count]

(* handleMarkAsRead up to its await; the handler keeps the notifications    *)
(* and the counter of the render it was called in. The button is shown for  *)
(* unread notifications only. batch and count0 record the calls started     *)
(* since no call was in flight, and the counter at that time.               *)
handleMarkAsReadStart(id) ==
    LET call == markNotificationAsRead(id)
        c == apiCallRequest(env, storage, call.endpoint, call.method, call.body, call.token)
    IN
    /\ ui.page = "notifications"
    /\ ~ui.notifications[id]
    /\ ui.marks < MaxMarks
    /\ Cardinality(pending) < MaxPending
    /\ c.kind = "return"
    /\ pending' = pending \cup {FreeId}
    /\ fetches' = (FreeId :> 1) @@ fetches
    /\ ui' = [ui EXCEPT
                 !.calls = (FreeId :> [id |-> id, notifications |-> ui.notifications,
                                       unreadCount |-> ui.unreadCount]) @@ @,
                 !.marks = @ + 1,
                 !.batch = IF pending = {} THEN <<id>> ELSE Append(@, id),
                 !.count0 = IF pending = {} THEN ui.unreadCount ELSE @]
    /\ UNCHANGED <<env, storage, trace, now>>

(* The request settles and handleMarkAsRead runs to its end: the result is  *)
(* not inspected, and both updates are computed from the captured values.   *)
handleMarkAsReadEnd(k, outcome) ==
    LET completion == apiCallCatch(apiCallResponse(outcome))
        c == ui.calls[k]
    IN
    /\ ui.page = "notifications"
    /\ k \in pending
    /\ pending' = pending \ {k}
    /\ fetches' = Drop(fetches, k)
    /\ ui' = IF completion.kind = "throw" THEN [ui EXCEPT !.calls = Drop(@, k)]
             ELSE [ui EXCEPT
                      !.calls = Drop(@, k),
                      !.notifications = [c.notifications EXCEPT ![c.id] = TRUE],
                      !.unreadCount = Max(0, c.unreadCount - 1)]
    /\ UNCHANGED <<env, storage, trace, now>>

NextNotifications ==
    \/ \E id \in NotificationIds : handleMarkAsReadStart(id)
    \/ \E k \in pending, outcome \in HandlerOutcomes : handleMarkAsReadEnd(k, outcome)

SpecNotifications == InitNotifications /\ [][NextNotifications]_vars

(* C24: when mark-as-read was started for two distinct unread notifications *)
(* while both requests were in flight, then once both have completed both   *)
(* notifications are read and the unread count is two less than before      *)
(* (not below 0).                                                           *)
C24_NoLostUpdate ==
    (pending = {} /\ Len(ui.batch) = 2 /\ ui.batch[1] # ui.batch[2]) =>
        /\ ui.notifications[ui.batch[1]]
        /\ ui.notifications[ui.batch[2]]
        /\ ui.unreadCount = Max(0, ui.count0 - 2)

(* Explore and discover pages: debounced search *)

Delay == 300

TimeStep == 100

MaxTime == 600

getPublicEntries(page, size) ==
    Call("/api/entries/public?page=" \o ToString(page) \o "&size=" \o ToString(size),
         "GET", Absent)

searchEntries(query, page, size) ==
    Call("/api/entries/public/search?query=" \o encodeURIComponent(query)
             \o "&page=" \o ToString(page) \o "&size=" \o ToString(size),
         "GET", Absent)

SearchTerms == {<<>>, <<" ">>, <<"a">>, <<"a", "b">>}

(* search.trim() is empty. *)
Blank(term) == \A j \in 1..Len(term) : term[j] = " "

(* The operation a page calls for a term. *)
SearchCall(page, term) ==
    IF page = "discover" THEN searchUsers(term)
    ELSE IF term # <<>> THEN searchEntries(term, 0, PageSize)
    ELSE getPublicEntries(0, PageSize)

(* What the server finds for a term. *)
ResultFor(term) == ArrVal(<<StrVal(<<"match:">> \o term)>>)

SearchOutcome(kind, page, term) ==
    CASE kind = "ok" ->
           [kind |-> "response",
            response |-> PageResponse(200, JsonType,
                Serialize(IF page = "discover" THEN ResultFor(term)
                          ELSE ObjVal(<<Member(<<"content">>, ResultFor(term)),
                                        Member(<<"totalPages">>, NumVal(1))>>)))]
      [] kind = "error" ->
           [kind |-> "response",
            response |-> PageResponse(500, Some(<<"text/plain">>), <<"Internal error">>)]
      [] kind = "reject" -> [kind |-> "reject", err |-> ErrorObj("network down")]

SearchOutcomeKinds == {"ok", "error", "reject"}

(* The effect of a page for a value of search: the discover page clears the *)
(* list and sets no timer for a blank term, else a timer is set.            *)
SearchEffect(u, term) ==
    IF u.page = "discover" /\ Blank(term)
    THEN [u EXCEPT !.search = term, !.timer = Absent, !.entries = EmptyList,
                   !.changedAt = now]
    ELSE [u EXCEPT !.search = term, !.timer = Some([term |-> term, due |-> now + Delay]),
                   !.changedAt = now]

SearchMounted(page) ==
    [page |-> page, search |-> <<>>, timer |-> Absent, entries |-> EmptyList,
     totalPages |-> Zero, loading |-> page = "explore", calls |-> <<>>, changedAt |-> 0,
     issued |-> {}, cancelled |-> {}, failed |-> FALSE]

InitSearch ==
    /\ env = "browser"
    /\ storage \in {EmptyStorage, [auth_token |-> Some("tokA"), auth_expires |-> Some("1700")]}
    /\ pending = {}
    /\ trace = <<>>
    /\ fetches = <<>>
    /\ now = 0
    /\ \E page \in {"explore", "discover"} : ui = SearchEffect(SearchMounted(page), <<>>)

Elapse ==
    /\ ui.page \in {"explore", "discover"}
    /\ now + TimeStep <= MaxTime
    /\ now' = now + TimeStep
    /\ UNCHANGED <<env, storage, pending, trace, fetches, ui>>

(* The user changes the search box: the cleanup of the previous effect      *)
(* clears its timer, then the effect runs for the new term.                 *)
SearchChange(term) ==
    /\ ui.page \in {"explore", "discover"}
    /\ term # ui.search
    /\ ui' = [SearchEffect(ui, term) EXCEPT
                 !.cancelled = IF ui.timer # Absent THEN @ \cup {ui.timer[1].term} ELSE @]
    /\ UNCHANGED <<env, storage, pending, trace, fetches, now>>

(* Variant: the timer fires without waiting for its delay. *)
TimerFireAtOnce ==
    LET term == ui.timer[1].term
        call == SearchCall(ui.page, term)
        c == apiCallRequest(env, storage, call.endpoint, call.method, call.body, call.token)
    IN
    /\ ui.page \in {"explore", "discover"}
    /\ ui.timer # Absent
    /\ Cardinality(pending) < MaxPending
    /\ c.kind = "return"
    /\ pending' = pending \cup {FreeId}
    /\ fetches' = (FreeId :> 1) @@ fetches
    /\ ui' = [ui EXCEPT !.timer = Absent, !.loading = TRUE,
                        !.calls = (FreeId :> term) @@ @,
                        !.issued = @ \cup {term}]
    /\ UNCHANGED <<env, storage, trace, now>>

(* The timer fires, not before its delay has passed: the load runs up to    *)
(* its await, issuing the request for the term the timer was set for.       *)
TimerFire ==
    LET term == ui.timer[1].term
        call == SearchCall(ui.page, term)
        c == apiCallRequest(env, storage, call.endpoint, call.method, call.body, call.token)
    IN
    /\ ui.page \in {"explore", "discover"}
    /\ ui.timer # Absent
    /\ now >= ui.timer[1].due
    /\ Cardinality(pending) < MaxPending
    /\ c.kind = "return"
    /\ pending' = pending \cup {FreeId}
    /\ fetches' = (FreeId :> 1) @@ fetches
    /\ ui' = [ui EXCEPT !.timer = Absent, !.loading = TRUE,
                        !.calls = (FreeId :> term) @@ @,
                        !.issued = @ \cup {term}]
    /\ UNCHANGED <<env, storage, trace, now>>

(* The statements of a load after its await. *)
ApplySearch(page, u, res) ==
    IF page = "discover"
    THEN IF HasData(res) /\ IsArray(res.data) THEN [u EXCEPT !.entries = Some(res.data)] ELSE u
    ELSE IF InThrows(res) THEN u
    ELSE IF HasContent(res)
         THEN [u EXCEPT !.entries = Field(res.data, <<"content">>),
                        !.totalPages = Field(res.data, <<"totalPages">>)]
    ELSE u

(* A search request settles and its load runs to its end. *)
SearchSettle(id, kind) ==
    LET completion == apiCallCatch(apiCallResponse(SearchOutcome(kind, ui.page, ui.calls[id])))
        applied == IF completion.kind = "return"
                   THEN ApplySearch(ui.page, ui, completion.value) ELSE ui
    IN
    /\ ui.page \in {"explore", "discover"}
    /\ id \in pending
    /\ pending' = pending \ {id}
    /\ fetches' = Drop(fetches, id)
    /\ ui' = [applied EXCEPT !.loading = FALSE, !.calls = Drop(@, id),
                             !.failed = @ \/ kind # "ok"]
    /\ UNCHANGED <<env, storage, trace, now>>

NextSearch ==
    \/ Elapse
    \/ \E term \in SearchTerms : SearchChange(term)
    \/ TimerFire
    \/ \E id \in pending, kind \in SearchOutcomeKinds : SearchSettle(id, kind)

SpecSearch == InitSearch /\ [][NextSearch]_vars

(* C25: on the explore page, when no timer is set, no request is in flight  *)
(* and every request completed successfully, the entries shown are the      *)
(* result for the current search term.                                      *)
C25_LatestTermShown ==
    (ui.page = "explore" /\ ui.timer = Absent /\ pending = {} /\ ~ui.failed) =>
        ui.entries = Some(ResultFor(ui.search))

(* C26: a request is issued for a term only when that term is the current  *)
(* one and has not changed for the whole delay; a timer that is set is     *)
(* always that of the current term, and a term replaced before its timer   *)
(* fired is requested only if it is typed again and stays for the delay.   *)
C26_Debounced ==
    [][/\ (pending' # pending /\ pending \subseteq pending') =>
             \A id \in pending' \ pending :
                 /\ ui'.calls[id] = ui.search
                 /\ ui.timer = Some([term |-> ui.search, due |-> ui.changedAt + Delay])
                 /\ now >= ui.changedAt + Delay
       /\ ui'.timer # Absent =>
             (ui'.timer[1].term = ui'.search /\ ui'.timer[1].due = ui'.changedAt + Delay)
      ]_vars

C26_Witness ==
    /\ ui.page = "explore"
    /\ <<"a">> \in ui.cancelled
    /\ <<"a">> \notin ui.issued
    /\ \E id \in pending : ui.calls[id] = <<"a", "b">>
    /\ ui.search = <<"a", "b">>

(* Write page: publish *)

createEntry(title, content, tags, visibility, imageUrls) ==
    Call("/api/entries", "POST",
         Some(ObjVal(<<Member(<<"title">>, StrVal(title)),
                       Member(<<"content">>, StrVal(content)),
                       Member(<<"tags">>, ArrVal(tags)),
                       Member(<<"visibility">>, StrVal(<<visibility>>)),
                       Member(<<"imageUrls">>, ArrVal(imageUrls))>>)))

(* s.trim(): leading and trailing blanks removed. *)
RECURSIVE TrimLeft(_)
TrimLeft(s) == IF s # <<>> /\ Head(s) = " " THEN TrimLeft(Tail(s)) ELSE s

RECURSIVE TrimRight(_)
TrimRight(s) ==
    IF s # <<>> /\ s[Len(s)] = " " THEN TrimRight(SubSeq(s, 1, Len(s) - 1)) ELSE s

Trim(s) == TrimRight(TrimLeft(s))

(* s.split(","): the pieces between the commas. *)
RECURSIVE Split(_, _)
Split(s, acc) ==
    IF s = <<>> THEN <<acc>>
    ELSE IF Head(s) = "," THEN <<acc>> \o Split(Tail(s), <<>>)
    ELSE Split(Tail(s), Append(acc, Head(s)))

(* tags.split(",").map((t) => t.trim()).filter(Boolean) *)
TagList(tags) ==
    LET pieces == Split(tags, <<>>)
        trimmed == [i \in 1..Len(pieces) |-> Trim(pieces[i])]
        kept == SelectSeq(trimmed, LAMBDA t : t # <<>>)
    IN [i \in 1..Len(kept) |-> StrVal(kept[i])]

FieldTexts == {<<>>, <<" ">>, <<"T", " ">>}

TagTexts == {<<>>, <<"x", ",", " ", "y", ",">>}

InitWrite ==
    /\ env = "browser"
    /\ storage \in PageStorages
    /\ pending = {}
    /\ trace = <<>>
    /\ fetches = <<>>
    /\ now = 0
    /\ \E title \in FieldTexts, content \in FieldTexts, tags \in TagTexts :
          ui = [page |-> "write", title |-> title, content |-> content, tags |-> tags,
                error |-> "", loading |-> FALSE, route |-> Absent,
                last |-> [none |-> TRUE]]

(* handlePublish up to its await, or to its early return. *)
handlePublishStart ==
    LET token == getStoredToken(env, storage)
        call == createEntry(ui.title, ui.content, TagList(ui.tags), "PUBLIC", <<>>)
        c == apiCallRequest(env, storage, call.endpoint, call.method, call.body, call.token)
    IN
    /\ ui.page = "write"
    /\ ~ui.loading
    /\ token.kind = "return"
    /\ c.kind = "return"
    /\ IF ~Truthy(token.value)
       THEN /\ ui' = [ui EXCEPT !.route = Some("/login")]
            /\ UNCHANGED <<pending, fetches>>
       ELSE IF Trim(ui.title) = <<>> \/ Trim(ui.content) = <<>>
       THEN /\ ui' = [ui EXCEPT !.error = "Title and content are required"]
            /\ UNCHANGED <<pending, fetches>>
       ELSE /\ ui' = [ui EXCEPT !.error = "", !.loading = TRUE]
            /\ pending' = {1}
            /\ fetches' = (1 :> 1)
    /\ UNCHANGED <<env, storage, trace, now>>

(* Variant: the page navigates whatever createEntry returned. *)
handlePublishEndAlwaysFeed(outcome) ==
    LET completion == apiCallCatch(apiCallResponse(outcome)) IN
    /\ ui.page = "write"
    /\ pending = {1}
    /\ pending' = {}
    /\ fetches' = <<>>
    /\ ui' = [ui EXCEPT !.route = Some("/feed"), !.loading = FALSE,
                        !.last = completion.value]
    /\ UNCHANGED <<env, storage, trace, now>>

(* The request settles and handlePublish runs to its end. *)
handlePublishEnd(outcome) ==
    LET completion == apiCallCatch(apiCallResponse(outcome))
        apiError == IF "error" \in DOMAIN completion.value
                    THEN Some(completion.value.error) ELSE Absent
    IN
    /\ ui.page = "write"
    /\ pending = {1}
    /\ pending' = {}
    /\ fetches' = <<>>
    /\ ui' = IF completion.kind = "throw"
             THEN [ui EXCEPT !.error = IF completion.value.isError
                                       THEN completion.value.message
                                       ELSE "Failed to publish",
                             !.loading = FALSE, !.last = [thrown |-> TRUE]]
             ELSE IF Truthy(apiError)
             THEN [ui EXCEPT !.error = apiError[1], !.loading = FALSE,
                             !.last = completion.value]
             ELSE [ui EXCEPT !.route = Some("/feed"), !.loading = FALSE,
                             !.last = completion.value]
    /\ UNCHANGED <<env, storage, trace, now>>

(* The user edits the form. *)
EditForm(title, content) ==
    /\ ui.page = "write"
    /\ <<title, content>> # <<ui.title, ui.content>>
    /\ ui' = [ui EXCEPT !.title = title, !.content = content]
    /\ UNCHANGED <<env, storage, pending, trace, fetches, now>>

NextWrite ==
    \/ handlePublishStart
    \/ \E outcome \in HandlerOutcomes : handlePublishEnd(outcome)
    \/ \E title \in FieldTexts, content \in FieldTexts : EditForm(title, content)

SpecWrite == InitWrite /\ [][NextWrite]_vars

getUserEntries(username, page, size) ==
    Call("/api/users/" \o username \o "/entries?page=" \o ToString(page)
             \o "&size=" \o ToString(size),
         "GET", Absent)

(* The user the stored token "tokA" was issued to, and the authors visited. *)
OwnUsername == "alice"

AuthorUsernames == {"alice", "bob"}

(* The calls loadAuthorData issues, in the order of its Promise.all. *)
AuthorCalls(username, token) ==
    IF Truthy(token)
    THEN <<getUserProfile(username), getUserEntries(username, 0, 10), getMyProfile,
           getFollowing>>
    ELSE <<getUserProfile(username), getUserEntries(username, 0, 10)>>

AuthorOutcomeKinds == {"ok", "error", "reject"}

(* What the server answers to the i-th call of the load for an author: the  *)
(* resource asked for, or a failure.                                        *)
AuthorOutcome(kind, i, username) ==
    CASE kind = "reject" -> [kind |-> "reject", err |-> ErrorObj("network down")]
      [] kind = "error" ->
           [kind |-> "response",
            response |-> PageResponse(500, Some(<<"text/plain">>), <<"Internal error">>)]
      [] kind = "ok" ->
           [kind |-> "response",
            response |->
              PageResponse(200, JsonType,
                 CASE i = 1 -> Serialize(ObjVal(<<Member(<<"username">>,
                                                         StrVal(<<username>>))>>))
                   [] i = 2 -> Serialize(ObjVal(<<Member(<<"content">>, ArrVal(<<>>)),
                                                  Member(<<"totalPages">>, NumVal(0))>>))
                   [] i = 3 -> Serialize(ObjVal(<<Member(<<"username">>,
                                                         StrVal(<<OwnUsername>>))>>))
                   [] i = 4 -> Serialize(ArrVal(<<StrVal(<<"bob">>)>>)))]

AuthorInitialState ==
    [profile |-> Absent, entries |-> Absent, isFollowing |-> FALSE,
     currentUsername |-> Absent, error |-> Absent]

InitAuthor ==
    /\ env = "browser"
    /\ storage \in PageStorages
    /\ pending = {}
    /\ trace = <<>>
    /\ fetches = <<>>
    /\ now = 0
    /\ ui = NoUi

(* The effect of the author page: loadAuthorData up to its joint await. *)
loadAuthorData(username) ==
    LET t == getStoredToken(env, storage)
        calls == AuthorCalls(username, t.value)
        reqs == [i \in 1..Len(calls) |->
                    apiCallRequest(env, storage, calls[i].endpoint, calls[i].method,
                                   calls[i].body, calls[i].token)]
    IN
    /\ ui = NoUi
    /\ t.kind = "return"
    /\ \A i \in 1..Len(reqs) : reqs[i].kind = "return"
    /\ ui' = [page |-> "author", username |-> username, loading |-> TRUE,
              joined |-> FALSE, route |-> Absent, alerted |-> FALSE,
              requests |-> [i \in 1..Len(reqs) |-> reqs[i].value],
              results |-> <<>>, toggles |-> <<>>, state |-> AuthorInitialState]
    /\ pending' = 1..Len(reqs)
    /\ fetches' = [i \in 1..Len(reqs) |-> 1]
    /\ UNCHANGED <<env, storage, trace, now>>

(* followingList.includes(username) *)
ListIncludes(v, username) ==
    CASE v.t = "arr" -> Contains(v.a, StrVal(<<username>>))
      [] v.t = "str" -> Includes(v.s, username)

(* The statements of loadAuthorData after the joint await, in order; an    *)
(* exception ends them and is caught, which sets the error.                 *)
ApplyAuthor(st, r, username) ==
    LET s1 == IF HasData(r[1]) THEN [st EXCEPT !.profile = Some(r[1].data)] ELSE st
        s2 == IF HasContent(r[2])
              THEN [s1 EXCEPT !.entries = Field(r[2].data, <<"content">>)] ELSE s1
        s3 == IF Len(r) >= 3 /\ HasData(r[3])
              THEN [s2 EXCEPT !.currentUsername = Some(Field(r[3].data, <<"username">>))]
              ELSE s2
        s4 == IF Len(r) >= 4 /\ HasData(r[4])
              THEN [s3 EXCEPT !.isFollowing = ListIncludes(r[4].data, username)]
              ELSE s3
        failed == [error |-> Some("Failed to load author data")]
    IN
    IF InThrows(r[2]) THEN failed @@ s1
    ELSE IF Len(r) >= 4 /\ HasData(r[4]) /\ r[4].data.t \notin {"arr", "str"}
         THEN failed @@ s3
    ELSE s4

(* One request of the load settles and its apiCall returns; when it is the  *)
(* last one the joint await resumes and loadAuthorData runs to its end.     *)
AuthorSettle(i, kind) ==
    LET completion == apiCallCatch(apiCallResponse(AuthorOutcome(kind, i, ui.username)))
        results == (i :> completion) @@ ui.results
        n == Len(ui.requests)
        seen == [ui EXCEPT !.results = results]
    IN
    /\ ui.page = "author"
    /\ ui.loading
    /\ i \in pending
    /\ pending' = pending \ {i}
    /\ fetches' = Drop(fetches, i)
    /\ ui' = IF pending = {i}
             THEN [seen EXCEPT !.joined = TRUE, !.loading = FALSE,
                               !.state = ApplyAuthor(ui.state,
                                                     [j \in 1..n |-> results[j].value],
                                                     ui.username)]
             ELSE seen
    /\ UNCHANGED <<env, storage, trace, now>>

(* The follow button is rendered: the page is past its loading and "Author  *)
(* not found" screens, a token is stored and currentUsername differs from   *)
(* the name of the profile shown.                                           *)
FollowButtonShown ==
    /\ ui.page = "author"
    /\ ~ui.loading
    /\ ui.state.profile # Absent
    /\ Truthy(getStoredToken(env, storage).value)
    /\ ui.state.currentUsername # Some(Field(ui.state.profile[1], <<"username">>))

(* currentUsername && currentUsername === username *)
IsOwnPage ==
    /\ ui.state.currentUsername # Absent
    /\ ui.state.currentUsername[1] # Absent
    /\ TruthyVal(ui.state.currentUsername[1][1])
    /\ ui.state.currentUsername[1][1] = StrVal(<<ui.username>>)

(* handleFollowToggle up to its await, or to its early return. *)
handleFollowToggleStart ==
    LET token == getStoredToken(env, storage)
        call == IF ui.state.isFollowing THEN unfollow(ui.username)
                ELSE sendFollowRequest(ui.username)
        c == apiCallRequest(env, storage, call.endpoint, call.method, call.body, call.token)
    IN
    /\ FollowButtonShown
    /\ Cardinality(pending) < MaxPending
    /\ token.kind = "return"
    /\ c.kind = "return"
    /\ IF ~Truthy(token.value)
       THEN /\ ui' = [ui EXCEPT !.route = Some("/login")]
            /\ UNCHANGED <<pending, fetches>>
       ELSE IF IsOwnPage
       THEN /\ ui' = [ui EXCEPT !.alerted = TRUE]
            /\ UNCHANGED <<pending, fetches>>
       ELSE /\ pending' = pending \cup {FreeId}
            /\ fetches' = (FreeId :> 1) @@ fetches
            /\ ui' = [ui EXCEPT !.toggles = (FreeId :> [request |-> c.value,
                                                        follow |-> ~ui.state.isFollowing])
                                            @@ @]
    /\ UNCHANGED <<env, storage, trace, now>>

(* The request of handleFollowToggle settles and the handler runs to its end. *)
handleFollowToggleEnd(id, outcome) ==
    LET completion == apiCallCatch(apiCallResponse(outcome)) IN
    /\ ui.page = "author"
    /\ id \in pending
    /\ id \in DOMAIN ui.toggles
    /\ pending' = pending \ {id}
    /\ fetches' = Drop(fetches, id)
    /\ ui' = [ui EXCEPT
                 !.toggles = Drop(@, id),
                 !.state = IF completion.kind = "return"
                           THEN [@ EXCEPT !.isFollowing = ui.toggles[id].follow]
                           ELSE [@ EXCEPT !.error = Some("Failed to update follow status")]]
    /\ UNCHANGED <<env, storage, trace, now>>

NextAuthor ==
    \/ \E username \in AuthorUsernames : loadAuthorData(username)
    \/ \E i \in pending, kind \in AuthorOutcomeKinds : AuthorSettle(i, kind)
    \/ handleFollowToggleStart
    \/ \E id \in pending, outcome \in HandlerOutcomes : handleFollowToggleEnd(id, outcome)

SpecAuthor == InitAuthor /\ [][NextAuthor]_vars

(* The requests handleFollowToggle has in flight. *)
ToggleRequests == {ui.toggles[id].request : id \in DOMAIN ui.toggles}

(* C28: no follow or unfollow request issued by handleFollowToggle of the   *)
(* author page has the username of the logged-in user as its target.        *)
C28_NeverFollowsSelf ==
    (ui # NoUi /\ ui.page = "author" /\ storage.auth_token = Some("tokA")) =>
        \A req \in ToggleRequests : req.url # API_BASE \o "/api/follow/" \o OwnUsername


(* The blog post page and the notifications page of part_001 *)

getEntry(id) == Call("/api/entries/" \o id, "GET", Absent)

(* params?.id: absent, or the id of a post. *)
BlogIds == {Absent, Some("e1")}

Text(s) == Some(StrVal(<<s>>))

(* loadEntry up to its await, or to its early return. *)
loadEntry(id) ==
    LET call == getEntry(IF id = Absent THEN "" ELSE id[1])
        c == apiCallRequest(env, storage, call.endpoint, call.method, call.body, call.token)
        mounted == [page |-> "blog", route |-> Absent, loading |-> TRUE, joined |-> FALSE,
                    token |-> Absent, requests |-> <<>>, results |-> <<>>, first |-> 0,
                    last |-> 0, state |-> [entry |-> Absent, error |-> Absent]]
    IN
    /\ ui = NoUi
    /\ c.kind = "return"
    /\ IF ~Truthy(id)
       THEN /\ ui' = [mounted EXCEPT !.loading = FALSE,
                                     !.state.error = Text("Invalid post ID")]
            /\ UNCHANGED <<pending, fetches>>
       ELSE /\ ui' = [mounted EXCEPT !.requests = <<c.value>>]
            /\ pending' = {1}
            /\ fetches' = (1 :> 1)
    /\ UNCHANGED <<env, storage, trace, now>>

(* The request of loadEntry settles and loadEntry runs to its end. *)
loadEntryEnd(outcome) ==
    LET completion == apiCallCatch(apiCallResponse(outcome))
        res == completion.value
    IN
    /\ ui.page = "blog"
    /\ pending = {1}
    /\ pending' = {}
    /\ fetches' = <<>>
    /\ ui' = [ui EXCEPT
                 !.results = (1 :> completion),
                 !.first = 1, !.last = 1,
                 !.joined = TRUE,
                 !.loading = FALSE,
                 !.state = IF completion.kind = "throw"
                           THEN [entry |-> Absent, error |-> Text("Failed to load post")]
                           ELSE IF "error" \in DOMAIN res /\ res.error # ""
                           THEN [entry |-> Absent, error |-> Text(res.error)]
                           ELSE IF HasData(res)
                           THEN [entry |-> Some(res.data), error |-> Absent]
                           ELSE [entry |-> Absent, error |-> Absent]]
    /\ UNCHANGED <<env, storage, trace, now>>

(* The effect of the notifications page of part_001: without a token it     *)
(* redirects, else loadNotifications runs up to its joint await.            *)
loadNotifications ==
    LET t == getStoredToken(env, storage)
        calls == <<listNotifications(0, 10), getUnreadNotificationsCount>>
        reqs == [i \in 1..2 |->
                    apiCallRequest(env, storage, calls[i].endpoint, calls[i].method,
                                   calls[i].body, calls[i].token)]
        mounted == [page |-> "notifications/part_001", route |-> Absent, loading |-> TRUE,
                    joined |-> FALSE, token |-> t.value, requests |-> <<>>,
                    results |-> <<>>, first |-> 0, last |-> 0,
                    state |-> [notifications |-> EmptyList, totalPages |-> Zero,
                               unreadCount |-> Zero, error |-> Absent]]
    IN
    /\ ui = NoUi
    /\ t.kind = "return"
    /\ \A i \in 1..2 : reqs[i].kind = "return"
    /\ IF ~Truthy(t.value)
       THEN /\ ui' = [mounted EXCEPT !.route = Some("/login")]
            /\ UNCHANGED <<pending, fetches>>
       ELSE /\ ui' = [mounted EXCEPT !.requests = [i \in 1..2 |-> reqs[i].value]]
            /\ pending' = {1, 2}
            /\ fetches' = [i \in 1..2 |-> 1]
    /\ UNCHANGED <<env, storage, trace, now>>

(* The statements of loadNotifications after the joint await; the catch     *)
(* clause sets the error when one of them throws.                           *)
ApplyNotificationsChecked(st, r) ==
    LET s1 == IF "error" \in DOMAIN r[1] /\ r[1].error # ""
              THEN [st EXCEPT !.error = Text(r[1].error)]
              ELSE IF HasContent(r[1])
              THEN [st EXCEPT !.notifications = Field(r[1].data, <<"content">>),
                              !.totalPages = Field(r[1].data, <<"totalPages">>)]
              ELSE [st EXCEPT !.notifications = EmptyList, !.totalPages = Zero]
        s2 == IF "data" \in DOMAIN r[2] /\ r[2].data.t = "num"
              THEN [s1 EXCEPT !.unreadCount = Some(r[2].data)] ELSE s1
    IN
    IF ~("error" \in DOMAIN r[1] /\ r[1].error # "") /\ InThrows(r[1])
    THEN [st EXCEPT !.error = Text("Failed to load notifications")]
    ELSE s2

(* One request of loadNotifications settles; when it is the last one the    *)
(* joint await resumes and loadNotifications runs to its end.               *)
loadNotificationsSettle(i, outcome) ==
    LET completion == apiCallCatch(apiCallResponse(outcome))
        results == (i :> completion) @@ ui.results
        seen == [ui EXCEPT !.results = results,
                           !.first = IF ui.first = 0 THEN i ELSE @,
                           !.last = i]
    IN
    /\ ui.page = "notifications/part_001"
    /\ i \in pending
    /\ pending' = pending \ {i}
    /\ fetches' = Drop(fetches, i)
    /\ ui' = IF ui.joined THEN seen
             ELSE IF completion.kind = "throw"
                  THEN [seen EXCEPT !.joined = TRUE, !.loading = FALSE,
                                    !.state.error = Text("Failed to load notifications")]
             ELSE IF pending = {i}
                  THEN [seen EXCEPT !.joined = TRUE, !.loading = FALSE,
                                    !.state = ApplyNotificationsChecked(
                                                  ui.state,
                                                  [j \in 1..2 |-> results[j].value])]
             ELSE seen
    /\ UNCHANGED <<env, storage, trace, now>>

(* A request of one of the guarded pages settles. *)
GuardedSettle(i, outcome) ==
    /\ ui.page \in GuardedPages
    /\ PageSettle(i, outcome)

NextLoads ==
    \/ \E page \in GuardedPages : PageLoad(page)
    \/ \E i \in pending, outcome \in PageOutcomes : GuardedSettle(i, outcome)
    \/ \E id \in BlogIds : loadEntry(id)
    \/ \E outcome \in PageOutcomes : loadEntryEnd(outcome)
    \/ loadNotifications
    \/ \E i \in pending, outcome \in PageOutcomes : loadNotificationsSettle(i, outcome)

SpecLoads == InitPages /\ [][NextLoads]_vars

(* The page has started a load and every request of it has completed. *)
LoadCompleted ==
    /\ ui # NoUi
    /\ ui.requests # <<>>
    /\ \A i \in 1..Len(ui.requests) : Settled(i)

(* C30: on a page that started a load, once every request of the load has   *)
(* completed, with success or error and in any order, the loading flag is   *)
(* false.                                                                   *)
C30_LoadingEnds == LoadCompleted => ~ui.loading

C30_Witness ==
    /\ ui.page = "notifications"
    /\ LoadCompleted
    /\ InThrows(Result(1))
    /\ "error" \in DOMAIN Result(2)
    /\ ui.first = 2
    /\ ~ui.loading

====
